---- MODULE Spec2Model ----
(***************************************************************************)
(* Model of the Jira CSV upload tool: the retrying Jira client             *)
(* (src/src/jira_client.py), the CSV reader and row validation             *)
(* (src/src/csv_processor.py, src/src/models.py), the per-group            *)
(* orchestration and the run of main (src/src/main.py).                    *)
(*                                                                         *)
(* The entry points modelled, each with its own specification:             *)
(*   SpecSubmit    JiraClient.create_issue called once on a client with    *)
(*                 any configured retry_attempts / retry_delay;            *)
(*   SpecGroup     process_issue_group called once on any list of rows;    *)
(*   SpecValidate  read_and_validate_csv on a file of one record, every    *)
(*                 cell of it drawn from RawValues;                        *)
(*   SpecRead      read_and_validate_csv on a file of up to MaxRecords     *)
(*                 records;                                                *)
(*   SpecHeader    read_and_validate_csv on a file with any header made    *)
(*                 of required and other columns;                          *)
(*   SpecGrouping  get_issue_groups (twice) and validate_issue_groups on   *)
(*                 up to MaxGroupingRows validated rows;                   *)
(*   Spec          main called on a CSV source of up to MaxRecordsMain     *)
(*                 records, or on a source with a structural error;        *)
(*   FairSpec      the same, where the thread of main always takes its     *)
(*                 next step;                                              *)
(*   SpecScenario  main called on the rows of the end-to-end test, in any  *)
(*                 order and number.                                       *)
(* The remote service is the environment: every call of jira.issue_create  *)
(* is answered by a nondeterministically chosen member of RemoteAnswers,   *)
(* and the connection test of main succeeds or fails.                      *)
(***************************************************************************)
EXTENDS Integers, Sequences, FiniteSets, TLC

\* Bounds of the model.
MaxRetry == 4
MaxDelay == 2
MaxRetryGroup == 2
MaxRows == 2
MaxRecords == 3
MaxGroupingRows == 4
MaxRetryScenario == 2
MaxRetryMain == 2
MaxRecordsMain == 2

\* AppConfig defaults (src/src/config.py).
DefaultRetryDelay == 5

VARIABLES
    entry,            \* entry point: "submit", "group", "read" or "main"
    retry_attempts,   \* JiraClient.retry_attempts
    retry_delay,      \* JiraClient.retry_delay
    pc,               \* position of the single thread of control
    operation,        \* _make_request_with_retry: operation name
    payload,          \* the fields passed to jira.issue_create
    attempt,          \* _make_request_with_retry: loop variable
    last_exception,   \* _make_request_with_retry: local
    remote_calls,     \* answers the remote gave to this submission's calls
    sleeps,           \* time.sleep durations of this submission, in order
    response,         \* value returned by the submission (NoResponse if none)
    raised,           \* exception propagating out of the submission
    next_id,          \* remote service: id of the next entity it creates
    api_calls,        \* number of jira.issue_create calls since the entry
    submitted,        \* payloads handed to create_issue / create_subtask
    rows,             \* process_issue_group: rows argument
    main_issue_row,   \* process_issue_group: index of the main row, 0 = None
    main_issue,       \* process_issue_group: response of the main creation
    row_idx,          \* process_issue_group: position of the subtask loop
    results,          \* process_issue_group: results dictionary
    csv_file,         \* the CSV source: exists, readable, fieldnames, records
    row_num,          \* read_and_validate_csv: row number of the next record
    validated_rows,   \* read_and_validate_csv: validated_rows
    read_errors,      \* read_and_validate_csv: errors
    read_raised,      \* exception raised by read_and_validate_csv ("None")
    issue_groups,     \* main: issue_groups, as <<id, rows>> in dict order
    group_idx,        \* main: position of the loop over issue_groups
    issue_id,         \* process_issue_group: issue_id argument
    all_results,      \* main: all_results
    success_count,    \* main: success_count
    error_count,      \* main: error_count
    ret,              \* main: return value, "running" until it returns
    connected,        \* main: outcome of test_connection ("untested")
    group_calls,      \* number of get_issue_groups calls made so far
    group_errors,     \* validate_issue_groups: errors
    groups_valid,     \* validate_issue_groups: return value ("unset")
    breakdown         \* main: the per-result lines of the final summary

vars == <<entry, retry_attempts, retry_delay, pc, operation, payload, attempt,
          last_exception, remote_calls, sleeps, response, raised, next_id,
          api_calls, submitted, rows, main_issue_row, main_issue, row_idx,
          results, csv_file, row_num, validated_rows, read_errors,
          read_raised, issue_groups, group_idx, issue_id, all_results,
          success_count, error_count, ret, connected, group_calls,
          group_errors, groups_valid, breakdown>>

readVars == <<csv_file, row_num, validated_rows, read_errors, read_raised>>
verifyVars == <<group_calls, group_errors, groups_valid>>
mainVars == <<issue_groups, group_idx, issue_id, all_results, success_count,
              error_count, ret, connected, verifyVars, breakdown>>

clientVars == <<retry_attempts, retry_delay>>
groupVars == <<rows, main_issue_row, main_issue, row_idx, results, submitted>>

----------------------------------------------------------------------------
\* Values of the CSV source.  A string is a sequence of characters; None is
\* a value that is no string.

None == <<"None">>

Chars == {" ", "a", "b", "A", "B"}

UpperChar(c) == CASE c = "a" -> "A" [] c = "b" -> "B" [] OTHER -> c

RECURSIVE lstrip(_)
lstrip(s) == IF s # <<>> /\ Head(s) = " " THEN lstrip(Tail(s)) ELSE s

RECURSIVE rstrip(_)
rstrip(s) ==
    IF s # <<>> /\ s[Len(s)] = " "
    THEN rstrip(SubSeq(s, 1, Len(s) - 1))
    ELSE s

strip(s) == rstrip(lstrip(s))

upper(s) == [i \in 1..Len(s) |-> UpperChar(s[i])]

Truthy(v) == v # None /\ v # <<>>

NoFile == [exists |-> FALSE, readable |-> FALSE, fieldnames |-> {},
           records |-> <<>>]

\* The state of the reader and of main while another entry point runs.
ReadIdle ==
    /\ csv_file = NoFile
    /\ row_num = 2
    /\ validated_rows = <<>>
    /\ read_errors = <<>>
    /\ read_raised = "None"

MainIdle ==
    /\ issue_groups = <<>>
    /\ group_idx = 1
    /\ issue_id = <<>>
    /\ all_results = <<>>
    /\ success_count = 0
    /\ error_count = 0
    /\ ret = "running"
    /\ connected = "untested"
    /\ group_calls = 0
    /\ group_errors = <<>>
    /\ groups_valid = "unset"
    /\ breakdown = <<>>

----------------------------------------------------------------------------
\* Exceptions and remote answers.

NoException == [type |-> "None", status_code |-> 0]
ApiStatusCodes == {401, 403, 404, 429, 500}
ApiError(s) == [type |-> "ApiError", status_code |-> s]
OtherException == [type |-> "Exception", status_code |-> 0]
TypeError == [type |-> "TypeError", status_code |-> 0]

RemoteErrors == {ApiError(s) : s \in ApiStatusCodes} \cup {OtherException}
RemoteAnswers ==
    {[ok |-> TRUE, exc |-> NoException]} \cup
    {[ok |-> FALSE, exc |-> e] : e \in RemoteErrors}

NoResponse == [key |-> 0, id |-> 0]
NoPayload == [op |-> "none", row |-> 0, issuetype |-> "None", parent |-> 0]

----------------------------------------------------------------------------
\* JiraClient._make_request_with_retry

IsAuthError(e) == e.status_code \in {401, 403}

IsClientError_Only400(e) == e.status_code = 400

IsClientError(e) ==
    400 <= e.status_code /\ e.status_code < 500 /\ e.status_code # 429

RaisesImmediately_AuthRetried(e) ==
    e.type = "ApiError" /\ IsClientError(e) /\ ~IsAuthError(e)

RaisesImmediately(e) ==
    e.type = "ApiError" /\ (IsAuthError(e) \/ IsClientError(e))

AttemptDisposition_NoReturn(ans) ==
    IF ~ans.ok /\ RaisesImmediately(ans.exc) THEN "raise" ELSE "retry"

AttemptDisposition(ans) ==
    IF ans.ok THEN "return"
    ELSE IF RaisesImmediately(ans.exc) THEN "raise"
    ELSE "retry"

RecordException_First(old, e) == IF old = NoException THEN e ELSE old

RecordException(old, e) == e

ShouldWait_Always(a, n) == TRUE

ShouldWait(a, n) == a < n - 1

WaitTime_Linear(delay, a) == delay * (a + 1)

WaitTime_Constant(delay, a) == delay

WaitTime(delay, a) == delay * (2 ^ a)

RaiseLast(e) == IF e = NoException THEN TypeError ELSE e

\* "for attempt in range(self.retry_attempts)": the loop variable starts at
\* 0 in every call, whatever it was when an earlier call ended, and the body
\* runs while it is below retry_attempts.
FirstAttempt_Resumed(previous) == previous

FirstAttempt(previous) == 0

InRange_OneMore(a, n) == a <= n

InRange(a, n) == a < n

StartSubmission(op, data) ==
    /\ operation' = op
    /\ payload' = data
    /\ submitted' = Append(submitted, data)
    /\ attempt' = FirstAttempt(attempt)
    /\ last_exception' = NoException
    /\ remote_calls' = <<>>
    /\ sleeps' = <<>>
    /\ response' = NoResponse
    /\ raised' = NoException
    /\ pc' = "attempt"

Attempt ==
    /\ pc = "attempt"
    /\ InRange(attempt, retry_attempts)
    /\ \E ans \in RemoteAnswers :
        /\ remote_calls' = Append(remote_calls, ans)
        /\ api_calls' = api_calls + 1
        /\ LET d == AttemptDisposition(ans) IN
            /\ response' = IF d = "return"
                           THEN [key |-> next_id, id |-> next_id]
                           ELSE response
            /\ next_id' = IF ans.ok THEN next_id + 1 ELSE next_id
            /\ last_exception' = IF d = "return" THEN last_exception
                                 ELSE RecordException(last_exception, ans.exc)
            /\ raised' = IF d = "raise" THEN ans.exc ELSE raised
            /\ pc' = CASE d = "return" -> "returned"
                       [] d = "raise" -> "raised"
                       [] OTHER -> "backoff"
    /\ UNCHANGED <<entry, readVars, mainVars, clientVars, operation, payload, attempt, sleeps,
                   groupVars>>

Wait ==
    /\ pc = "backoff"
    /\ ShouldWait(attempt, retry_attempts)
    /\ sleeps' = Append(sleeps, WaitTime(retry_delay, attempt))
    /\ attempt' = attempt + 1
    /\ pc' = "attempt"
    /\ UNCHANGED <<entry, readVars, mainVars, clientVars, operation, payload, last_exception,
                   remote_calls, response, raised, next_id, api_calls,
                   groupVars>>

SkipWait ==
    /\ pc = "backoff"
    /\ ~ShouldWait(attempt, retry_attempts)
    /\ attempt' = attempt + 1
    /\ pc' = "attempt"
    /\ UNCHANGED <<entry, readVars, mainVars, clientVars, operation, payload, last_exception,
                   remote_calls, sleeps, response, raised, next_id, api_calls,
                   groupVars>>

AllAttemptsFailed ==
    /\ pc = "attempt"
    /\ ~InRange(attempt, retry_attempts)
    /\ raised' = RaiseLast(last_exception)
    /\ pc' = "raised"
    /\ UNCHANGED <<entry, readVars, mainVars, clientVars, operation, payload, attempt,
                   last_exception, remote_calls, sleeps, response, next_id,
                   api_calls, groupVars>>

----------------------------------------------------------------------------
\* CSVRow (src/src/models.py).  A validated row holds, for each optional
\* field, either None or a non-empty trimmed string; the orchestration only
\* tests the fields for truth, so each field is modelled by its presence.

CSVRow(i, s, d, t, ss, sd) ==
    [id |-> i, summary |-> s, description |-> d, issue_type |-> t,
     subtask_summary |-> ss, subtask_description |-> sd]

has_subtask_ChildOnly(row) ==
    row.subtask_summary /\ row.subtask_description /\ ~row.summary

has_subtask(row) == row.subtask_summary /\ row.subtask_description

has_main_issue(row) == row.summary /\ row.description /\ row.issue_type

\* The shapes of row the model draws its inputs from.
RowShapes(i) ==
    { CSVRow(i, TRUE, TRUE, TRUE, FALSE, FALSE),    \* main issue only
      CSVRow(i, TRUE, TRUE, TRUE, TRUE, TRUE),      \* main issue and subtask
      CSVRow(i, FALSE, FALSE, FALSE, TRUE, TRUE),   \* subtask only
      CSVRow(i, TRUE, TRUE, FALSE, TRUE, TRUE),     \* no issue type, subtask
      CSVRow(i, TRUE, FALSE, TRUE, TRUE, FALSE),    \* both halves incomplete
      CSVRow(i, FALSE, FALSE, FALSE, FALSE, FALSE) }

\* A row with a summary and a description but no issue type.
TypelessRow(i) == CSVRow(i, TRUE, TRUE, FALSE, TRUE, TRUE)

SeqsUpTo(S, n) == UNION {[1..k -> S] : k \in 0..n}

----------------------------------------------------------------------------
\* process_issue_group (src/src/main.py)

NoEntity == [key |-> 0, id |-> 0, row |-> 0]
EmptyResults == [main_issue |-> NoEntity, subtasks |-> <<>>, errors |-> <<>>]

IsMainIssueRow(row) == row.summary /\ row.description

FindMainIssueRow_Last(rs) ==
    IF \E i \in 1..Len(rs) : IsMainIssueRow(rs[i])
    THEN CHOOSE i \in 1..Len(rs) :
            /\ IsMainIssueRow(rs[i])
            /\ \A j \in (i + 1)..Len(rs) : ~IsMainIssueRow(rs[j])
    ELSE 0

FindMainIssueRow(rs) ==
    IF \E i \in 1..Len(rs) : IsMainIssueRow(rs[i])
    THEN CHOOSE i \in 1..Len(rs) :
            /\ IsMainIssueRow(rs[i])
            /\ \A j \in 1..(i - 1) : ~IsMainIssueRow(rs[j])
    ELSE 0

create_issue_data(rs, i) ==
    [op |-> "create_issue", row |-> i,
     issuetype |-> IF rs[i].issue_type THEN "row" ELSE "None",
     parent |-> 0]

create_subtask_data_FirstIssue(rs, i, parent_id) ==
    [op |-> "create_subtask", row |-> i, issuetype |-> "Sub-task",
     parent |-> 1]

create_subtask_data(rs, i, parent_id) ==
    [op |-> "create_subtask", row |-> i, issuetype |-> "Sub-task",
     parent |-> parent_id]

NextSubtaskRow_Last(rs, from) ==
    IF \E i \in from..Len(rs) : has_subtask(rs[i])
    THEN CHOOSE i \in from..Len(rs) :
            /\ has_subtask(rs[i])
            /\ \A j \in (i + 1)..Len(rs) : ~has_subtask(rs[j])
    ELSE 0

NextSubtaskRow(rs, from) ==
    IF \E i \in from..Len(rs) : has_subtask(rs[i])
    THEN CHOOSE i \in from..Len(rs) :
            /\ has_subtask(rs[i])
            /\ \A j \in from..(i - 1) : ~has_subtask(rs[j])
    ELSE 0

AfterMainFailure_Continue == "pg_subtasks"

AfterMainFailure == "pg_return"

AfterSubtaskFailure_Abort == "pg_return"

AfterSubtaskFailure == "pg_subtasks"

ErrorMessage(what, i, e) == [what |-> what, row |-> i, exc |-> e]

\* Both handlers of process_issue_group are "except Exception": they catch
\* the ApiError, the other exceptions and the TypeError of a submission.  An
\* exception a handler does not catch leaves process_issue_group
\* (pc = "pg_raised").
HandlerCatches_ApiErrorOnly(e) == e.type = "ApiError"

HandlerCatches(e) == e.type \in {"ApiError", "Exception", "TypeError"}

submissionVars == <<operation, payload, attempt, last_exception, remote_calls,
                    sleeps, response, raised>>

PGStart ==
    /\ pc = "pg_start"
    /\ LET m == FindMainIssueRow(rows) IN
        /\ main_issue_row' = m
        /\ row_idx' = 1
        /\ main_issue' = NoResponse
        /\ IF m = 0
           THEN /\ results' = [EmptyResults EXCEPT
                        !.errors = <<ErrorMessage("no_main", 0, NoException)>>]
                /\ pc' = "pg_return"
                /\ UNCHANGED <<submissionVars, submitted>>
           ELSE /\ results' = EmptyResults
                /\ StartSubmission("create_issue", create_issue_data(rows, m))
    /\ UNCHANGED <<entry, readVars, mainVars, clientVars, next_id, api_calls, rows>>

PGMainCreated ==
    /\ entry # "submit"
    /\ pc = "returned"
    /\ operation = "create_issue"
    /\ main_issue' = response
    /\ results' = [results EXCEPT !.main_issue =
            [key |-> response.key, id |-> response.id, row |-> main_issue_row]]
    /\ pc' = "pg_subtasks"
    /\ UNCHANGED <<entry, readVars, mainVars, clientVars, submissionVars, next_id, api_calls,
                   submitted, rows, main_issue_row, row_idx>>

PGMainFailed ==
    /\ entry # "submit"
    /\ pc = "raised"
    /\ operation = "create_issue"
    /\ IF HandlerCatches(raised)
       THEN /\ results' = [results EXCEPT !.errors =
                    Append(@, ErrorMessage("main", main_issue_row, raised))]
            /\ pc' = AfterMainFailure
       ELSE /\ pc' = "pg_raised"
            /\ UNCHANGED results
    /\ UNCHANGED <<entry, readVars, mainVars, clientVars, submissionVars, next_id, api_calls,
                   submitted, rows, main_issue_row, main_issue, row_idx>>

PGSubtaskStart ==
    /\ pc = "pg_subtasks"
    /\ NextSubtaskRow(rows, row_idx) # 0
    /\ LET j == NextSubtaskRow(rows, row_idx) IN
        /\ row_idx' = j
        /\ StartSubmission("create_subtask",
                           create_subtask_data(rows, j, main_issue.id))
    /\ UNCHANGED <<entry, readVars, mainVars, clientVars, next_id, api_calls, rows,
                   main_issue_row, main_issue, results>>

PGSubtaskCreated ==
    /\ pc = "returned"
    /\ operation = "create_subtask"
    /\ results' = [results EXCEPT !.subtasks =
            Append(@, [key |-> response.key, id |-> response.id,
                       row |-> row_idx])]
    /\ row_idx' = row_idx + 1
    /\ pc' = "pg_subtasks"
    /\ UNCHANGED <<entry, readVars, mainVars, clientVars, submissionVars, next_id, api_calls,
                   submitted, rows, main_issue_row, main_issue>>

PGSubtaskFailed ==
    /\ pc = "raised"
    /\ operation = "create_subtask"
    /\ IF HandlerCatches(raised)
       THEN /\ results' = [results EXCEPT !.errors =
                    Append(@, ErrorMessage("subtask", row_idx, raised))]
            /\ row_idx' = row_idx + 1
            /\ pc' = AfterSubtaskFailure
       ELSE /\ pc' = "pg_raised"
            /\ UNCHANGED <<results, row_idx>>
    /\ UNCHANGED <<entry, readVars, mainVars, clientVars, submissionVars, next_id, api_calls,
                   submitted, rows, main_issue_row, main_issue>>

PGSubtasksDone ==
    /\ pc = "pg_subtasks"
    /\ NextSubtaskRow(rows, row_idx) = 0
    /\ row_idx' = Len(rows) + 1
    /\ pc' = "pg_return"
    /\ UNCHANGED <<entry, readVars, mainVars, clientVars, submissionVars, next_id, api_calls,
                   submitted, rows, main_issue_row, main_issue, results>>

\* Entry point: process_issue_group called once on a list of rows.

\* The lists of rows of one group: up to MaxRows rows of the shapes with an
\* issue type or without main-issue data, and the row without issue type
\* alone, before or after a row of any shape.
GroupRowLists ==
    SeqsUpTo(RowShapes(1) \ {TypelessRow(1)}, MaxRows)
    \cup {<<TypelessRow(1)>>}
    \cup {<<TypelessRow(1), r>> : r \in RowShapes(1)}
    \cup {<<r, TypelessRow(1)>> : r \in RowShapes(1)}

InitGroup ==
    /\ ReadIdle
    /\ MainIdle
    /\ entry = "group"
    /\ retry_attempts \in 0..MaxRetryGroup
    /\ retry_delay = DefaultRetryDelay
    /\ rows \in GroupRowLists
    /\ pc = "pg_start"
    /\ operation = "none"
    /\ payload = NoPayload
    /\ submitted = <<>>
    /\ attempt = 0
    /\ last_exception = NoException
    /\ remote_calls = <<>>
    /\ sleeps = <<>>
    /\ response = NoResponse
    /\ raised = NoException
    /\ next_id = 1
    /\ api_calls = 0
    /\ main_issue_row = 0
    /\ main_issue = NoResponse
    /\ row_idx = 1
    /\ results = EmptyResults

NextGroup ==
    \/ PGStart \/ PGMainCreated \/ PGMainFailed
    \/ PGSubtaskStart \/ PGSubtaskCreated \/ PGSubtaskFailed \/ PGSubtasksDone
    \/ Attempt \/ Wait \/ SkipWait \/ AllAttemptsFailed

SpecGroup == InitGroup /\ [][NextGroup]_vars

----------------------------------------------------------------------------
\* Entry point: JiraClient.create_issue called once.

SubmitPayload ==
    [op |-> "create_issue", row |-> 1, issuetype |-> "row", parent |-> 0]

InitSubmit ==
    /\ ReadIdle
    /\ MainIdle
    /\ entry = "submit"
    /\ retry_attempts \in 0..MaxRetry
    /\ retry_delay \in 0..MaxDelay
    /\ pc = "attempt"
    /\ operation = "create_issue"
    /\ payload = SubmitPayload
    /\ submitted = <<SubmitPayload>>
    /\ attempt = 0
    /\ last_exception = NoException
    /\ remote_calls = <<>>
    /\ sleeps = <<>>
    /\ response = NoResponse
    /\ raised = NoException
    /\ next_id = 1
    /\ api_calls = 0
    /\ rows = <<>>
    /\ main_issue_row = 0
    /\ main_issue = NoResponse
    /\ row_idx = 1
    /\ results = EmptyResults

NextSubmit == Attempt \/ Wait \/ SkipWait \/ AllAttemptsFailed

SpecSubmit == InitSubmit /\ [][NextSubmit]_vars

----------------------------------------------------------------------------
\* CSVRow validators (src/src/models.py) and CSVProcessor
\* (src/src/csv_processor.py).  Here the fields of a row hold values: a
\* string or None.

required_columns ==
    {"ID", "Project Key", "Summary", "Description", "Issue Type",
     "Subtask Summary", "Subtask Description"}

Valid(v) == [ok |-> TRUE, value |-> v]
Invalid == [ok |-> FALSE, value |-> None]

validate_id(v) ==
    IF v = None THEN Invalid
    ELSE IF v = <<>> \/ strip(v) = <<>> THEN Invalid
    ELSE Valid(strip(v))

validate_project_key_csv_NoUpper(v) ==
    IF v = None THEN Invalid
    ELSE IF v = <<>> \/ strip(v) = <<>> THEN Invalid
    ELSE Valid(strip(v))

validate_project_key_csv(v) ==
    IF v = None THEN Invalid
    ELSE IF v = <<>> \/ strip(v) = <<>> THEN Invalid
    ELSE Valid(upper(strip(v)))

validate_optional_Strict(v) ==
    IF v = None THEN Valid(None)
    ELSE IF strip(v) = <<>> THEN Invalid
    ELSE Valid(strip(v))

validate_optional(v) ==
    IF v = None \/ strip(v) = <<>> THEN Valid(None) ELSE Valid(strip(v))

\* CSVRow(id=row['ID'], ...) as read_and_validate_csv builds it.
MakeCSVRow(raw) ==
    LET i  == validate_id(raw["ID"])
        pk == validate_project_key_csv(raw["Project Key"])
        s  == validate_optional(raw["Summary"])
        d  == validate_optional(raw["Description"])
        ty == validate_optional(raw["Issue Type"])
        ss == validate_optional(IF Truthy(raw["Subtask Summary"])
                                THEN raw["Subtask Summary"] ELSE None)
        sd == validate_optional(IF Truthy(raw["Subtask Description"])
                                THEN raw["Subtask Description"] ELSE None)
    IN  IF i.ok /\ pk.ok /\ s.ok /\ d.ok /\ ty.ok /\ ss.ok /\ sd.ok
        THEN [ok |-> TRUE,
              row |-> [id |-> i.value, project_key |-> pk.value,
                       summary |-> s.value, description |-> d.value,
                       issue_type |-> ty.value,
                       subtask_summary |-> ss.value,
                       subtask_description |-> sd.value]]
        ELSE [ok |-> FALSE, row |-> None]

validate_csv_structure_Lenient(fieldnames) == fieldnames # {}

validate_csv_structure_Exact(fieldnames) == fieldnames = required_columns

validate_csv_structure(fieldnames) ==
    IF fieldnames = {} THEN FALSE
    ELSE IF required_columns \ fieldnames # {} THEN FALSE
    ELSE TRUE

AfterMalformedRow_Abort == "read_returned"

AfterMalformedRow == "read_rows"

RowError(n) == [row_num |-> n, what |-> "Validation error"]

OpenCSV ==
    /\ pc = "read_open"
    /\ IF ~csv_file.exists
       THEN read_raised' = "FileNotFoundError" /\ pc' = "read_raised"
       ELSE IF ~csv_file.readable
       THEN read_raised' = "OSError" /\ pc' = "read_raised"
       ELSE IF ~validate_csv_structure(csv_file.fieldnames)
       THEN read_raised' = "ValueError" /\ pc' = "read_raised"
       ELSE read_raised' = "None" /\ pc' = "read_rows"
    /\ row_num' = 2
    /\ validated_rows' = <<>>
    /\ read_errors' = <<>>
    /\ UNCHANGED <<entry, csv_file, mainVars, clientVars, submissionVars,
                   next_id, api_calls, groupVars>>

ReadRow ==
    /\ pc = "read_rows"
    /\ row_num - 1 <= Len(csv_file.records)
    /\ LET r == MakeCSVRow(csv_file.records[row_num - 1]) IN
        IF r.ok
        THEN /\ validated_rows' = Append(validated_rows, r.row)
             /\ pc' = "read_rows"
             /\ UNCHANGED read_errors
        ELSE /\ read_errors' = Append(read_errors, RowError(row_num))
             /\ pc' = AfterMalformedRow
             /\ UNCHANGED validated_rows
    /\ row_num' = row_num + 1
    /\ UNCHANGED <<entry, csv_file, read_raised, mainVars, clientVars,
                   submissionVars, next_id, api_calls, groupVars>>

ReadDone ==
    /\ pc = "read_rows"
    /\ row_num - 1 > Len(csv_file.records)
    /\ pc' = "read_returned"
    /\ UNCHANGED <<entry, readVars, mainVars, clientVars, submissionVars,
                   next_id, api_calls, groupVars>>

\* The inputs of the reader.

RawRecord(i, pk, s, d, ty, ss, sd) ==
    [c \in required_columns |->
        CASE c = "ID" -> i
          [] c = "Project Key" -> pk
          [] c = "Summary" -> s
          [] c = "Description" -> d
          [] c = "Issue Type" -> ty
          [] c = "Subtask Summary" -> ss
          [] c = "Subtask Description" -> sd]

RawValues == {None, <<>>, <<" ">>, <<"a">>, <<" ", "a", " ">>}

AllRawRecords == [required_columns -> RawValues]

\* Records of the shapes of RowShapes, for the group keys "a" and "b", one
\* of them spelt with surrounding blanks, and two malformed records.
SampleRawRecords ==
    LET x == <<"a">>
        e == <<>>
        Of(i) == { RawRecord(i, x, x, x, x, e, e),
                   RawRecord(i, x, x, x, x, x, x),
                   RawRecord(i, x, e, e, e, x, x),
                   RawRecord(i, x, x, x, <<" ">>, x, x) }
    IN  Of(<<"a">>) \cup Of(<<"b">>)
        \cup { RawRecord(<<" ", "a", " ">>, x, e, e, e, x, x),
               RawRecord(<<" ">>, x, x, x, x, x, x),
               RawRecord(<<"a">>, e, x, x, x, x, x) }

ReadableFile(recs) ==
    [exists |-> TRUE, readable |-> TRUE, fieldnames |-> required_columns,
     records |-> recs]

SubmissionIdle ==
    /\ operation = "none"
    /\ payload = NoPayload
    /\ submitted = <<>>
    /\ attempt = 0
    /\ last_exception = NoException
    /\ remote_calls = <<>>
    /\ sleeps = <<>>
    /\ response = NoResponse
    /\ raised = NoException
    /\ next_id = 1
    /\ api_calls = 0

GroupIdle ==
    /\ rows = <<>>
    /\ main_issue_row = 0
    /\ main_issue = NoResponse
    /\ row_idx = 1
    /\ results = EmptyResults

ReaderStart ==
    /\ pc = "read_open"
    /\ row_num = 2
    /\ validated_rows = <<>>
    /\ read_errors = <<>>
    /\ read_raised = "None"

\* Entry point: read_and_validate_csv called on a readable file of one
\* record whose header is any set of required and other columns.
ExtraColumns == {"Labels", "Priority"}

HeaderFiles ==
    {[exists |-> TRUE, readable |-> TRUE, fieldnames |-> F,
      records |-> <<RawRecord(<<"a">>, <<"a">>, <<"a">>, <<"a">>, <<"a">>,
                              <<"a">>, <<"a">>)>>] :
        F \in SUBSET (required_columns \cup ExtraColumns)}

InitHeader ==
    /\ entry = "read"
    /\ retry_attempts = 0
    /\ retry_delay = DefaultRetryDelay
    /\ csv_file \in HeaderFiles
    /\ ReaderStart
    /\ SubmissionIdle
    /\ GroupIdle
    /\ MainIdle

\* Entry point: read_and_validate_csv called on a readable file with a valid
\* header and one record, every field of it drawn from RawValues.
InitValidate ==
    /\ entry = "read"
    /\ retry_attempts = 0
    /\ retry_delay = DefaultRetryDelay
    /\ csv_file \in {ReadableFile(<<r>>) : r \in AllRawRecords}
    /\ ReaderStart
    /\ SubmissionIdle
    /\ GroupIdle
    /\ MainIdle

NextRead == OpenCSV \/ ReadRow \/ ReadDone

SpecValidate == InitValidate /\ [][NextRead]_vars

SpecHeader == InitHeader /\ [][NextRead]_vars

\* Entry point: read_and_validate_csv called on a file with a valid header
\* and up to MaxRecords records.
InitRead ==
    /\ entry = "read"
    /\ retry_attempts = 0
    /\ retry_delay = DefaultRetryDelay
    /\ csv_file \in {ReadableFile(recs) :
                        recs \in SeqsUpTo(SampleRawRecords, MaxRecords)}
    /\ ReaderStart
    /\ SubmissionIdle
    /\ GroupIdle
    /\ MainIdle

SpecRead == InitRead /\ [][NextRead]_vars

----------------------------------------------------------------------------
\* CSVProcessor.get_issue_groups, CSVProcessor.validate_issue_groups and
\* main (src/src/main.py).

\* The truth value of every optional field of a validated row, which is all
\* process_issue_group reads of it.
RowTruth(row) ==
    CSVRow(row.id, Truthy(row.summary), Truthy(row.description),
           Truthy(row.issue_type), Truthy(row.subtask_summary),
           Truthy(row.subtask_description))

GroupIndex(groups, id) ==
    IF \E k \in 1..Len(groups) : groups[k].id = id
    THEN CHOOSE k \in 1..Len(groups) : groups[k].id = id
    ELSE 0

NewGroup_Front(groups, row) ==
    <<[id |-> row.id, rows |-> <<row>>]>> \o groups

NewGroup(groups, row) == Append(groups, [id |-> row.id, rows |-> <<row>>])

AddToGroup_Front(groups, k, row) ==
    [groups EXCEPT ![k].rows = <<row>> \o @]

AddToGroup(groups, k, row) == [groups EXCEPT ![k].rows = Append(@, row)]

RECURSIVE GroupRows(_, _)
GroupRows(rs, groups) ==
    IF rs = <<>> THEN groups
    ELSE LET row == Head(rs)
             k == GroupIndex(groups, row.id)
         IN  GroupRows(Tail(rs),
                IF k = 0
                THEN NewGroup(groups, row)
                ELSE AddToGroup(groups, k, row))

\* Every call starts from an empty dictionary, whatever an earlier call
\* returned.
InitialGroups_Kept(earlier) == earlier

InitialGroups(earlier) == <<>>

call_get_issue_groups(earlier, rs) == GroupRows(rs, InitialGroups(earlier))

get_issue_groups(rs) == call_get_issue_groups(<<>>, rs)

main_issue_rows(rs) ==
    SelectSeq(rs, LAMBDA row : Truthy(row.summary) /\ Truthy(row.description))

RECURSIVE GroupErrors(_)
GroupErrors(groups) ==
    IF groups = <<>> THEN <<>>
    ELSE LET n == Len(main_issue_rows(Head(groups).rows))
             here == IF n = 0
                     THEN <<[id |-> Head(groups).id, what |-> "no_main"]>>
                     ELSE IF n > 1
                     THEN <<[id |-> Head(groups).id, what |-> "multiple"]>>
                     ELSE <<>>
         IN  here \o GroupErrors(Tail(groups))

validate_issue_groups_Skipped(groups) == TRUE

validate_issue_groups(groups) == GroupErrors(groups) = <<>>

AfterProbeFailure_Continue == "read_open"

AfterProbeFailure == "main_done"

AfterReadFailure_Continue == "read_returned"

AfterReadFailure == "main_done"

AfterGroup_StopOnError(res) ==
    IF res.errors # <<>> THEN "main_summary" ELSE "main_loop"

AfterGroup_StopOnAuthError(res) ==
    IF \E k \in 1..Len(res.errors) : IsAuthError(res.errors[k].exc)
    THEN "main_summary" ELSE "main_loop"

AfterGroup(res) == "main_loop"

RecordResult_Replace(all, res) == <<res>>

RecordResult(all, res) == Append(all, res)

HasErrors_NoMainIssue(res) == res.main_issue = NoEntity

HasErrors(res) == res.errors # <<>>

ResultWithoutRows_Failure == "False"

ResultWithoutRows == "True"

\* The per-result part of the summary main logs: a result is listed, with
\* its subtasks and its errors, when it has a main issue.
Breakdown(all) ==
    LET listed == SelectSeq(all, LAMBDA res : res.main_issue # NoEntity)
    IN  [k \in 1..Len(listed) |->
            [main_issue |-> listed[k].main_issue,
             subtasks |-> listed[k].subtasks,
             errors |-> listed[k].errors]]

RunResult_AnySuccess(sc, ec) == IF sc > 0 THEN "True" ELSE "False"

RunResult(sc, ec) == IF ec = 0 THEN "True" ELSE "False"

ValidateConfig ==
    /\ pc = "main_start"
    /\ \E ok \in BOOLEAN :
        IF ok
        THEN pc' = "main_probe" /\ UNCHANGED ret
        ELSE pc' = "main_done" /\ ret' = "False"
    /\ UNCHANGED <<entry, readVars, breakdown, verifyVars, connected, issue_groups, group_idx, issue_id,
                   all_results, success_count, error_count, clientVars,
                   submissionVars, next_id, api_calls, groupVars>>

TestConnection ==
    /\ pc = "main_probe"
    /\ \E ok \in BOOLEAN :
        IF ok
        THEN connected' = "ok" /\ pc' = "read_open" /\ UNCHANGED ret
        ELSE /\ connected' = "failed"
             /\ pc' = AfterProbeFailure
             /\ ret' = "False"
    /\ UNCHANGED <<entry, readVars, breakdown, verifyVars, issue_groups, group_idx, issue_id,
                   all_results, success_count, error_count, clientVars,
                   submissionVars, next_id, api_calls, groupVars>>

MainReadFailed ==
    /\ entry = "main"
    /\ pc = "read_raised"
    /\ pc' = AfterReadFailure
    /\ ret' = "False"
    /\ UNCHANGED <<entry, readVars, breakdown, verifyVars, connected, issue_groups, group_idx, issue_id,
                   all_results, success_count, error_count, clientVars,
                   submissionVars, next_id, api_calls, groupVars>>

MainGroupRows ==
    /\ entry = "main"
    /\ pc = "read_returned"
    /\ IF validated_rows = <<>>
       THEN /\ ret' = ResultWithoutRows
            /\ pc' = "main_done"
            /\ UNCHANGED <<issue_groups, verifyVars>>
       ELSE LET groups == get_issue_groups(validated_rows) IN
            /\ issue_groups' = groups
            /\ group_calls' = group_calls + 1
            /\ group_errors' = GroupErrors(groups)
            /\ groups_valid' = validate_issue_groups(groups)
            /\ IF ~validate_issue_groups(groups)
               THEN ret' = "False" /\ pc' = "main_done"
               ELSE pc' = "main_loop" /\ UNCHANGED ret
    /\ group_idx' = 1
    /\ all_results' = <<>>
    /\ success_count' = 0
    /\ error_count' = 0
    /\ UNCHANGED <<entry, readVars, connected, breakdown, issue_id, clientVars,
                   submissionVars, next_id, api_calls, groupVars>>

MainNextGroup ==
    /\ pc = "main_loop"
    /\ group_idx <= Len(issue_groups)
    /\ issue_id' = issue_groups[group_idx].id
    /\ rows' = [i \in 1..Len(issue_groups[group_idx].rows) |->
                    RowTruth(issue_groups[group_idx].rows[i])]
    /\ submitted' = <<>>
    /\ pc' = "pg_start"
    /\ UNCHANGED <<entry, readVars, breakdown, verifyVars, connected, issue_groups, group_idx, all_results,
                   success_count, error_count, ret, clientVars,
                   submissionVars, next_id, api_calls, main_issue_row,
                   main_issue, row_idx, results>>

MainGroupReturned ==
    /\ entry = "main"
    /\ pc = "pg_return"
    /\ all_results' = RecordResult(all_results,
            [issue_id |-> issue_id, main_issue |-> results.main_issue,
             subtasks |-> results.subtasks, errors |-> results.errors])
    /\ IF HasErrors(results)
       THEN error_count' = error_count + 1 /\ UNCHANGED success_count
       ELSE success_count' = success_count + 1 /\ UNCHANGED error_count
    /\ group_idx' = group_idx + 1
    /\ pc' = AfterGroup(results)
    /\ UNCHANGED <<entry, readVars, breakdown, verifyVars, connected, issue_groups, issue_id, ret, clientVars,
                   submissionVars, next_id, api_calls, groupVars>>

MainSummary ==
    /\ \/ pc = "main_loop" /\ group_idx > Len(issue_groups)
       \/ pc = "main_summary"
    /\ breakdown' = Breakdown(all_results)
    /\ ret' = RunResult(success_count, error_count)
    /\ pc' = "main_done"
    /\ UNCHANGED <<entry, readVars, verifyVars, connected, issue_groups, group_idx, issue_id,
                   all_results, success_count, error_count, clientVars,
                   submissionVars, next_id, api_calls, groupVars>>

\* Entry point: main called on a CSV source.  The source is missing,
\* unreadable, has a header without a required column or without any column,
\* or is readable with a valid header (with or without an extra column) and
\* up to MaxRecords records.
SampleRecord ==
    RawRecord(<<"a">>, <<"a">>, <<"a">>, <<"a">>, <<"a">>, <<"a">>, <<"a">>)

\* Records of a main run: a primary row with a subtask for each of two ids;
\* a subtask-only row comes alone, twice, or before or after one primary
\* row; a record whose ID is blank comes alone or before a well-formed
\* record.
MainRawRecords ==
    { RawRecord(<<"a">>, <<"a">>, <<"a">>, <<"a">>, <<"a">>, <<"a">>, <<"a">>),
      RawRecord(<<"b">>, <<"a">>, <<"a">>, <<"a">>, <<"a">>, <<"a">>, <<"a">>) }

SubtaskOnlyRecord ==
    RawRecord(<<"a">>, <<"a">>, <<>>, <<>>, <<>>, <<"a">>, <<"a">>)

SubtaskOnlyFiles ==
    {ReadableFile(<<SubtaskOnlyRecord>>),
     ReadableFile(<<SubtaskOnlyRecord, SubtaskOnlyRecord>>)}
    \cup {ReadableFile(<<SubtaskOnlyRecord, r>>) : r \in MainRawRecords}
    \cup {ReadableFile(<<r, SubtaskOnlyRecord>>) : r \in MainRawRecords}

BlankIdRecord ==
    RawRecord(<<" ">>, <<"a">>, <<"a">>, <<"a">>, <<"a">>, <<>>, <<>>)

MainFiles ==
    { [exists |-> FALSE, readable |-> FALSE, fieldnames |-> required_columns,
       records |-> <<SampleRecord>>],
      [exists |-> TRUE, readable |-> FALSE, fieldnames |-> required_columns,
       records |-> <<SampleRecord>>],
      [exists |-> TRUE, readable |-> TRUE,
       fieldnames |-> required_columns \ {"Issue Type"},
       records |-> <<SampleRecord>>],
      [exists |-> TRUE, readable |-> TRUE, fieldnames |-> {},
       records |-> <<>>],
      [exists |-> TRUE, readable |-> TRUE,
       fieldnames |-> required_columns \cup {"Labels"},
       records |-> <<SampleRecord>>],
      ReadableFile(<<BlankIdRecord>>),
      ReadableFile(<<BlankIdRecord, SampleRecord>>) }
    \cup SubtaskOnlyFiles
    \cup {ReadableFile(recs) :
                recs \in SeqsUpTo(MainRawRecords, MaxRecordsMain)}

InitMain ==
    /\ entry = "main"
    /\ retry_attempts \in -1..MaxRetryMain
    /\ retry_delay = DefaultRetryDelay
    /\ csv_file \in MainFiles
    /\ pc = "main_start"
    /\ row_num = 2
    /\ validated_rows = <<>>
    /\ read_errors = <<>>
    /\ read_raised = "None"
    /\ SubmissionIdle
    /\ GroupIdle
    /\ MainIdle

Next ==
    \/ ValidateConfig \/ TestConnection \/ OpenCSV \/ ReadRow \/ ReadDone
    \/ MainReadFailed \/ MainGroupRows \/ MainNextGroup \/ MainGroupReturned
    \/ MainSummary
    \/ PGStart \/ PGMainCreated \/ PGMainFailed
    \/ PGSubtaskStart \/ PGSubtaskCreated \/ PGSubtaskFailed \/ PGSubtasksDone
    \/ Attempt \/ Wait \/ SkipWait \/ AllAttemptsFailed

Spec == InitMain /\ [][Next]_vars

\* main is one sequential thread: as long as it has not returned, its next
\* step is taken (a remote call is answered or raises, time.sleep returns).
FairSpec == Spec /\ WF_vars(Next)

\* Entry point: main called on a source made of rows of the end-to-end test
\* (a main issue with a subtask, a subtask-only row of the same ID and a
\* main issue of another ID without subtask), each at most once and in any
\* order; or on a missing source.
ScenarioRecords ==
    { RawRecord(<<"a">>, <<"a">>, <<"a">>, <<"a">>, <<"a">>, <<"a">>, <<"a">>),
      RawRecord(<<"a">>, <<"a">>, <<>>, <<>>, <<>>, <<"b">>, <<"b">>),
      RawRecord(<<"b">>, <<"a">>, <<"b">>, <<"b">>, <<"a">>, <<>>, <<>>) }

ScenarioFiles ==
    {[exists |-> FALSE, readable |-> FALSE, fieldnames |-> required_columns,
      records |-> <<SampleRecord>>]}
    \cup {ReadableFile(recs) :
                recs \in {s \in SeqsUpTo(ScenarioRecords,
                                         Cardinality(ScenarioRecords)) :
                             \A i, j \in 1..Len(s) : i # j => s[i] # s[j]}}

InitScenario ==
    /\ entry = "main"
    /\ retry_attempts \in 1..MaxRetryScenario
    /\ retry_delay = DefaultRetryDelay
    /\ csv_file \in ScenarioFiles
    /\ pc = "main_start"
    /\ row_num = 2
    /\ validated_rows = <<>>
    /\ read_errors = <<>>
    /\ read_raised = "None"
    /\ SubmissionIdle
    /\ GroupIdle
    /\ MainIdle

SpecScenario == InitScenario /\ [][Next]_vars

----------------------------------------------------------------------------
\* CSVProcessor.get_issue_groups and validate_issue_groups called directly
\* on a list of validated rows.

GroupCall ==
    /\ entry = "grouping"
    /\ pc \in {"group_ready", "grouped"}
    /\ group_calls < 2
    /\ issue_groups' = call_get_issue_groups(issue_groups, validated_rows)
    /\ group_calls' = group_calls + 1
    /\ pc' = "grouped"
    /\ UNCHANGED <<entry, readVars, breakdown, group_errors, groups_valid, group_idx,
                   issue_id, all_results, success_count, error_count, ret,
                   connected, clientVars, submissionVars, next_id, api_calls,
                   groupVars>>

VerifyCall ==
    /\ entry = "grouping"
    /\ pc = "grouped"
    /\ group_errors' = GroupErrors(issue_groups)
    /\ groups_valid' = validate_issue_groups(issue_groups)
    /\ pc' = "verified"
    /\ UNCHANGED <<entry, readVars, breakdown, group_calls, issue_groups, group_idx,
                   issue_id, all_results, success_count, error_count, ret,
                   connected, clientVars, submissionVars, next_id, api_calls,
                   groupVars>>

\* Entry point: the validated rows are the rows of up to MaxGroupingRows
\* records with three IDs that differ (two of them in case only), each with
\* a complete main issue, a main issue without issue type, or a subtask
\* only.
GroupingRecords ==
    LET x == <<"a">>
        e == <<>>
    IN  UNION {{ RawRecord(i, x, x, x, x, e, e),
                 RawRecord(i, x, x, x, e, e, e),
                 RawRecord(i, x, e, e, e, x, x) } :
               i \in {<<"a">>, <<"b">>, <<"A">>}}

GroupingRows == {MakeCSVRow(r).row : r \in GroupingRecords}

InitGrouping ==
    /\ entry = "grouping"
    /\ retry_attempts = 0
    /\ retry_delay = DefaultRetryDelay
    /\ pc = "group_ready"
    /\ csv_file = NoFile
    /\ row_num = 2
    /\ validated_rows \in SeqsUpTo(GroupingRows, MaxGroupingRows)
    /\ read_errors = <<>>
    /\ read_raised = "None"
    /\ SubmissionIdle
    /\ GroupIdle
    /\ MainIdle

NextGrouping == GroupCall \/ VerifyCall

SpecGrouping == InitGrouping /\ [][NextGrouping]_vars

----------------------------------------------------------------------------
\* Properties of one submission.  The classes of remote answer are stated
\* here as the specification states them, from the status of the answer.

AuthAnswer(a) ==
    ~a.ok /\ a.exc.type = "ApiError" /\ a.exc.status_code \in {401, 403}

ClientAnswer(a) ==
    /\ ~a.ok
    /\ a.exc.type = "ApiError"
    /\ a.exc.status_code \in 400..499
    /\ a.exc.status_code # 429

RetryableAnswer(a) == ~a.ok /\ ~ClientAnswer(a)

TransientAnswer(a) ==
    /\ ~a.ok
    /\ \/ a.exc.type = "Exception"
       \/ a.exc.type = "ApiError" /\ a.exc.status_code >= 500

Last(s) == s[Len(s)]

\* C1: a submission whose first remote call is answered by an authentication
\* error (ApiError 401 or 403) has failed with that error after exactly one
\* remote call and without any backoff wait, whatever retry_attempts >= 1 is.
C1_AuthFailsAfterOneAttempt ==
    (retry_attempts >= 1 /\ Len(remote_calls) >= 1
        /\ AuthAnswer(remote_calls[1]))
    => /\ Len(remote_calls) = 1
       /\ sleeps = <<>>
       /\ pc = "raised"
       /\ raised = remote_calls[1].exc
       /\ response = NoResponse

C1_Witness ==
    /\ pc = "raised"
    /\ retry_attempts >= 3
    /\ Len(remote_calls) = 1
    /\ remote_calls[1].exc = ApiError(403)

\* C2: an attempt answered by a client error other than 429 is the last
\* attempt of its submission: the submission has failed with that error, no
\* later remote call was made and no wait followed it, whatever the number
\* of attempts left.
C2_ClientErrorFailsImmediately ==
    \A i \in 1..Len(remote_calls) :
        ClientAnswer(remote_calls[i])
        => /\ i = Len(remote_calls)
           /\ Len(sleeps) = i - 1
           /\ pc = "raised"
           /\ raised = remote_calls[i].exc
           /\ response = NoResponse

C2_Witness ==
    /\ pc = "raised"
    /\ retry_attempts >= 3
    /\ Len(remote_calls) = 2
    /\ remote_calls[2].exc = ApiError(404)
    /\ Len(sleeps) = 1

\* C3: when attempt i (from 0) is answered by a rate-limit or transient
\* error and i < retry_attempts - 1, the submission goes on: attempt i+1 is
\* made only after a wait of exactly retry_delay * 2^i seconds, and until it
\* is made the submission is either about to wait or, having waited exactly
\* that long, about to make attempt i+1.
C3_BackoffBeforeRetry ==
    \A k \in 1..Len(remote_calls) :
        (RetryableAnswer(remote_calls[k]) /\ k - 1 < retry_attempts - 1)
        => /\ Len(remote_calls) > k
              => /\ Len(sleeps) >= k
                 /\ sleeps[k] = retry_delay * (2 ^ (k - 1))
           /\ Len(remote_calls) = k
              => \/ pc = "backoff" /\ attempt = k - 1 /\ Len(sleeps) = k - 1
                 \/ /\ pc = "attempt"
                    /\ attempt = k
                    /\ Len(sleeps) = k
                    /\ sleeps[k] = retry_delay * (2 ^ (k - 1))

C3_Witness ==
    /\ Len(remote_calls) = 4
    /\ retry_delay = 2
    /\ sleeps = <<2, 4, 8>>
    /\ remote_calls[1].exc = ApiError(429)
    /\ remote_calls[2].exc = ApiError(500)
    /\ remote_calls[3].exc = OtherException

\* C5 (as stated): with retry_attempts = 3 and any retry_delay >= 0, a
\* submission answered by two transient errors and then a success returns
\* the success on the third attempt after exactly two waits, the second
\* strictly longer than the first.
TwoTransientThenSuccess ==
    /\ retry_attempts = 3
    /\ Len(remote_calls) = 3
    /\ TransientAnswer(remote_calls[1])
    /\ TransientAnswer(remote_calls[2])
    /\ remote_calls[3].ok

TwoTransientSoFar ==
    /\ retry_attempts = 3
    /\ Len(remote_calls) = 2
    /\ TransientAnswer(remote_calls[1])
    /\ TransientAnswer(remote_calls[2])

C5_SecondWaitStrictlyLonger ==
    /\ TwoTransientSoFar => pc \in {"backoff", "attempt"}
    /\ TwoTransientThenSuccess
       => /\ pc = "returned"
          /\ response # NoResponse
          /\ Len(sleeps) = 2
          /\ sleeps[2] > sleeps[1]

\* C5 (amended): the same submission returns the success on the third
\* attempt after exactly two waits of retry_delay and 2 * retry_delay
\* seconds: the second is strictly longer when retry_delay > 0, and both
\* are zero when retry_delay = 0.
C5_TwoWaitsDoubling ==
    /\ TwoTransientSoFar => pc \in {"backoff", "attempt"}
    /\ TwoTransientThenSuccess
       => /\ pc = "returned"
          /\ response # NoResponse
          /\ raised = NoException
          /\ sleeps = <<retry_delay, 2 * retry_delay>>
          /\ retry_delay > 0 => sleeps[2] > sleeps[1]
          /\ retry_delay = 0 => sleeps = <<0, 0>>

C5_Witness ==
    /\ TwoTransientThenSuccess
    /\ pc = "returned"
    /\ retry_delay = 2
    /\ sleeps = <<2, 4>>

\* C6: an attempt answered by a success is the last remote call of its
\* submission: the created entity is returned, nothing is raised, no wait
\* follows, and the number of remote calls made is the (1-based) index of
\* that first successful attempt.
C6_SuccessReturnsImmediately ==
    \A i \in 1..Len(remote_calls) :
        remote_calls[i].ok
        => /\ i = Len(remote_calls)
           /\ api_calls = i
           /\ Len(sleeps) = i - 1
           /\ pc = "returned"
           /\ response # NoResponse
           /\ raised = NoException

C6_Witness ==
    /\ pc = "returned"
    /\ retry_attempts = 4
    /\ Len(remote_calls) = 2
    /\ remote_calls[2].ok
    /\ api_calls = 2

----------------------------------------------------------------------------
\* Properties of the processing of one group.

InSubmission == pc \in {"attempt", "backoff", "returned", "raised"}

AllAttemptsRetryable ==
    /\ retry_attempts >= 1
    /\ Len(remote_calls) = retry_attempts
    /\ \A i \in 1..Len(remote_calls) : RetryableAnswer(remote_calls[i])

\* C4: when all retry_attempts attempts of a submission were answered by
\* retryable errors, the submission fails with the error of the last
\* attempt, and the error the group result records for that entity (the
\* main issue or the subtask row submitted) carries that same error.
C4_LastErrorIsReported ==
    AllAttemptsRetryable
    => \/ pc = "backoff" /\ last_exception = Last(remote_calls).exc
       \/ pc = "attempt" /\ last_exception = Last(remote_calls).exc
       \/ pc = "raised" /\ raised = Last(remote_calls).exc
       \/ /\ pc \in {"pg_subtasks", "pg_return"}
          /\ results.errors # <<>>
          /\ Last(results.errors) =
                [what |-> IF operation = "create_issue" THEN "main"
                          ELSE "subtask",
                 row |-> payload.row,
                 exc |-> Last(remote_calls).exc]

C4_Witness ==
    /\ pc = "pg_subtasks"
    /\ retry_attempts = 2
    /\ remote_calls = <<[ok |-> FALSE, exc |-> ApiError(429)],
                        [ok |-> FALSE, exc |-> OtherException]>>
    /\ Last(results.errors) =
            [what |-> "subtask", row |-> 2, exc |-> OtherException]

\* C7: when the submission of the main issue of a group fails, whatever the
\* error, the processing of the group ends at once with a result holding no
\* main issue, no subtask and exactly one error; no subtask is ever
\* submitted for a group whose result has no main issue, even if rows of the
\* group carry subtask data, and nothing follows the end of the processing.
C7_StepOnMainFailure ==
    (pc = "raised" /\ operation = "create_issue")
    => /\ pc' = "pg_return"
       /\ results' = [main_issue |-> NoEntity, subtasks |-> <<>>,
                      errors |-> <<[what |-> "main", row |-> payload.row,
                                    exc |-> raised]>>]
       /\ Len(submitted) = 1
       /\ submitted' = submitted
       /\ api_calls' = api_calls

C7_NoSubtaskWithoutMain ==
    results.main_issue = NoEntity
    => \A k \in 1..Len(submitted) : submitted[k].op # "create_subtask"

C7_MainFailureEndsGroup ==
    /\ [][C7_StepOnMainFailure]_vars
    /\ [][pc # "pg_return"]_vars
    /\ []C7_NoSubtaskWithoutMain

C7_Witness ==
    /\ pc = "pg_return"
    /\ Len(rows) = 2
    /\ has_subtask(rows[1]) /\ has_subtask(rows[2])
    /\ raised = ApiError(404)
    /\ results.main_issue = NoEntity
    /\ Len(results.errors) = 1
    /\ Len(submitted) = 1

\* C8 (as stated): when no row of the group has all three main-issue fields
\* (summary, description and issue type), processing the group makes no
\* remote call at all, and ends with exactly one error, no main issue and no
\* subtask.
NoPrimaryCandidate == \A i \in 1..Len(rows) : ~has_main_issue(rows[i])

C8_NoPrimaryNoRemoteCall ==
    NoPrimaryCandidate
    => /\ api_calls = 0
       /\ pc = "pg_return"
          => /\ results.main_issue = NoEntity
             /\ results.subtasks = <<>>
             /\ Len(results.errors) = 1

\* C9: a failed subtask submission adds exactly one error, for that row, to
\* the result of the group and leaves the recorded main issue and the
\* subtasks recorded so far unchanged; and once the processing of a group
\* with a created main issue has ended, every row with subtask data has been
\* submitted, the rows after a failed one included.
C9_StepOnSubtaskFailure ==
    (pc = "raised" /\ operation = "create_subtask")
    => /\ results'.errors =
            Append(results.errors,
                   [what |-> "subtask", row |-> payload.row, exc |-> raised])
       /\ results'.main_issue = results.main_issue
       /\ results'.subtasks = results.subtasks
       /\ submitted' = submitted

C9_AllSubtaskRowsSubmitted ==
    (pc = "pg_return" /\ results.main_issue # NoEntity)
    => \A i \in 1..Len(rows) :
          (rows[i].subtask_summary /\ rows[i].subtask_description)
          => \E k \in 1..Len(submitted) :
                submitted[k].op = "create_subtask" /\ submitted[k].row = i

C9_SubtaskFailureIsIsolated ==
    /\ [][C9_StepOnSubtaskFailure]_vars
    /\ []C9_AllSubtaskRowsSubmitted

C9_Witness ==
    /\ pc = "pg_return"
    /\ Len(rows) = 2
    /\ results.main_issue # NoEntity
    /\ Len(results.errors) = 1
    /\ results.errors[1].what = "subtask" /\ results.errors[1].row = 1
    /\ Len(results.subtasks) = 1
    /\ results.subtasks[1].row = 2

\* C10: within a group the main issue is submitted first and is resolved,
\* retries included, before any subtask is submitted; the subtasks are
\* submitted once per row with subtask data, in row order; and each
\* submission is resolved (recorded as a subtask or as an error) before the
\* next one starts.
SubtaskRows ==
    SelectSeq([i \in 1..Len(rows) |-> i],
              LAMBDA i : rows[i].subtask_summary /\ rows[i].subtask_description)

C10_PrimaryThenSubtasksInOrder ==
    /\ Len(submitted) >= 1 => submitted[1].op = "create_issue"
    /\ (Len(submitted) = 1 /\ InSubmission) => results = EmptyResults
    /\ \A k \in 2..Len(submitted) :
          /\ submitted[k].op = "create_subtask"
          /\ results.main_issue # NoEntity
          /\ k - 1 <= Len(SubtaskRows)
          /\ submitted[k].row = SubtaskRows[k - 1]
    /\ Len(submitted) >= 2
       => Len(results.subtasks) + Len(results.errors) =
             IF InSubmission THEN Len(submitted) - 2 ELSE Len(submitted) - 1
    /\ (pc = "pg_return" /\ results.main_issue # NoEntity)
       => Len(submitted) = 1 + Len(SubtaskRows)

C10_Witness ==
    /\ pc = "pg_return"
    /\ Len(submitted) = 3
    /\ submitted[2].row = 1
    /\ submitted[3].row = 2
    /\ Len(results.subtasks) = 2

----------------------------------------------------------------------------
\* Properties of row validation and of the CSV reader.

\* A raw cell that is absent, empty or made of blanks only.
Blank(v) == v = None \/ \A k \in 1..Len(v) : v[k] = " "

OptionalColumns ==
    {"Summary", "Description", "Issue Type", "Subtask Summary",
     "Subtask Description"}

FieldOf(row, c) ==
    CASE c = "Summary" -> row.summary
      [] c = "Description" -> row.description
      [] c = "Issue Type" -> row.issue_type
      [] c = "Subtask Summary" -> row.subtask_summary
      [] c = "Subtask Description" -> row.subtask_description

WellFormed(rec) == ~Blank(rec["ID"]) /\ ~Blank(rec["Project Key"])

\* C20: a record fails validation exactly when its ID or its Project Key is
\* absent or empty after trimming; a blank value in any of the five other
\* columns never makes the record fail, and the validated row carries None
\* for it.
C20_OnlyIdAndProjectKeyRequired ==
    (pc \in {"read_rows", "read_returned"} /\ row_num = 3)
    => LET rec == csv_file.records[1] IN
       /\ read_errors # <<>> <=> ~WellFormed(rec)
       /\ validated_rows # <<>> <=> WellFormed(rec)
       /\ Len(validated_rows) + Len(read_errors) = 1
       /\ validated_rows # <<>>
          => \A c \in OptionalColumns :
                Blank(rec[c]) => FieldOf(validated_rows[1], c) = None

C20_Witness ==
    /\ pc = "read_returned"
    /\ csv_file.records[1]["Summary"] = <<" ">>
    /\ csv_file.records[1]["Subtask Summary"] = <<>>
    /\ csv_file.records[1]["Issue Type"] = None
    /\ Len(validated_rows) = 1
    /\ validated_rows[1].summary = None
    /\ validated_rows[1].id = <<"a">>

\* The records of the file read so far.
RecordsRead ==
    IF pc \in {"read_rows", "read_returned"}
    THEN SubSeq(csv_file.records, 1, row_num - 2)
    ELSE <<>>

RECURSIVE ExpectedRows(_)
ExpectedRows(recs) ==
    IF recs = <<>> THEN <<>>
    ELSE (IF WellFormed(Head(recs)) THEN <<MakeCSVRow(Head(recs)).row>>
          ELSE <<>>) \o ExpectedRows(Tail(recs))

RECURSIVE ExpectedErrors(_, _)
ExpectedErrors(recs, n) ==
    IF recs = <<>> THEN <<>>
    ELSE (IF WellFormed(Head(recs)) THEN <<>> ELSE <<RowError(n)>>)
         \o ExpectedErrors(Tail(recs), n + 1)

\* C19: a malformed record never stops the reader: when the reader returns,
\* every record of the file has been read, the validated rows are exactly the
\* well-formed records in file order, every malformed record has exactly one
\* error carrying its row number (the header is row 1), and validated rows
\* plus errors count the records of the file.
C19_MalformedRowIsSkipped ==
    /\ validated_rows = ExpectedRows(RecordsRead)
    /\ read_errors = ExpectedErrors(RecordsRead, 2)
    /\ Len(validated_rows) + Len(read_errors) = Len(RecordsRead)
    /\ pc = "read_returned" => RecordsRead = csv_file.records

C19_Witness ==
    /\ pc = "read_returned"
    /\ Len(csv_file.records) = 3
    /\ ~WellFormed(csv_file.records[2])
    /\ Len(validated_rows) = 2
    /\ read_errors = <<RowError(3)>>

----------------------------------------------------------------------------
\* Properties of one group: no exception leaves process_issue_group.

\* C18: whatever a submission raises (an ApiError of any status, another
\* exception, the TypeError of a client with no attempts), the step of
\* process_issue_group that follows appends one error carrying that
\* exception to results.errors and goes on inside the function; the call
\* never ends with an exception (pc = "pg_raised"), and when it returns every
\* submission it made is accounted for as the main issue, a subtask or an
\* error.
C18_StepOnRaise ==
    pc = "raised"
    => /\ pc' \in {"pg_subtasks", "pg_return"}
       /\ Len(results'.errors) = Len(results.errors) + 1
       /\ Last(results'.errors).exc = raised
       /\ results'.main_issue = results.main_issue
       /\ results'.subtasks = results.subtasks

C18_GroupNeverRaises ==
    /\ [][C18_StepOnRaise]_vars
    /\ [](pc # "pg_raised")
    /\ [](pc = "pg_return" /\ main_issue_row # 0
          => Len(submitted) =
                (IF results.main_issue # NoEntity THEN 1 ELSE 0)
                + Len(results.subtasks) + Len(results.errors))

C18_Witness ==
    /\ pc = "pg_return"
    /\ Len(results.errors) = 2
    /\ results.errors[1].exc = OtherException
    /\ results.errors[2].exc = ApiError(401)
    /\ results.main_issue # NoEntity

----------------------------------------------------------------------------
\* Properties of a run of main.

\* A source that read_and_validate_csv cannot read as a table of records:
\* the file is missing or unreadable, or its header lacks a required column.
StructuralError(file) ==
    \/ ~file.exists
    \/ ~file.readable
    \/ ~(required_columns \subseteq file.fieldnames)

NothingRead ==
    /\ row_num = 2
    /\ validated_rows = <<>>
    /\ read_errors = <<>>
    /\ read_raised = "None"

NothingSubmitted ==
    /\ api_calls = 0
    /\ submitted = <<>>
    /\ remote_calls = <<>>
    /\ issue_groups = <<>>
    /\ all_results = <<>>

\* C16: when the connection test fails, main returns False at once: the CSV
\* source is never opened, no row is read and jira.issue_create is never
\* called.
C16_ProbeFailureEndsRun ==
    connected = "failed"
    => /\ pc = "main_done"
       /\ ret = "False"
       /\ NothingRead
       /\ NothingSubmitted

C16_Witness ==
    /\ connected = "failed"
    /\ ret = "False"
    /\ ~StructuralError(csv_file)
    /\ Len(csv_file.records) = 2
    /\ retry_attempts = 2

\* C17: when the source is missing, unreadable or lacks a required column,
\* read_and_validate_csv raises before reading any record and main returns
\* False: no row is validated, no group is formed and jira.issue_create is
\* never called.
C17_StepOnReadFailure ==
    (entry = "main" /\ pc = "read_raised")
    => pc' = "main_done" /\ ret' = "False"

C17_StructuralErrorAbortsRun ==
    /\ [][C17_StepOnReadFailure]_vars
    /\ [](StructuralError(csv_file)
          => /\ pc \in {"main_start", "main_probe", "read_open",
                        "read_raised", "main_done"}
             /\ pc = "main_done" => ret = "False"
             /\ pc = "read_raised" => read_raised # "None"
             /\ row_num = 2 /\ validated_rows = <<>> /\ read_errors = <<>>
             /\ NothingSubmitted)
    /\ []((pc = "read_raised" /\ read_raised = "FileNotFoundError")
          => ~csv_file.exists)

C17_Witness ==
    /\ pc = "main_done"
    /\ connected = "ok"
    /\ read_raised = "ValueError"
    /\ csv_file.fieldnames = required_columns \ {"Issue Type"}
    /\ Len(csv_file.records) = 1
    /\ ret = "False"

\* The run passed the connection test, read rows, formed groups that passed
\* validate_issue_groups and entered the loop over the groups.
ReachedSubmission ==
    /\ entry = "main"
    /\ connected = "ok"
    /\ issue_groups # <<>>
    /\ pc \notin {"main_start", "main_probe", "read_open", "read_rows",
                  "read_raised", "read_returned"}
    /\ ~(pc = "main_done" /\ ret = "False" /\ all_results = <<>>)

\* create_issue was called for the group of this result: the main issue was
\* created or the failure of its creation was recorded.
PrimaryAttempted(res) ==
    \/ res.main_issue # NoEntity
    \/ \E k \in 1..Len(res.errors) : res.errors[k].what = "main"

\* C11: every create_subtask payload carries as parent the id the remote
\* returned for the main issue of the group being processed: it is never 0
\* (no parent), and never the id of an issue or subtask created for another
\* group.
C11_SubtaskLinkedToOwnPrimary ==
    \A k \in 1..Len(submitted) :
        submitted[k].op = "create_subtask"
        => /\ submitted[k].parent # 0
           /\ submitted[k].parent = main_issue.id
           /\ submitted[k].parent = results.main_issue.id
           /\ submitted[1].op = "create_issue"
           /\ \A j \in 1..Len(all_results) :
                 all_results[j].issue_id # issue_id
                 => /\ all_results[j].main_issue.id # submitted[k].parent
                    /\ \A s \in 1..Len(all_results[j].subtasks) :
                          all_results[j].subtasks[s].id # submitted[k].parent

C11_Witness ==
    /\ entry = "main"
    /\ Len(all_results) = 1
    /\ all_results[1].main_issue # NoEntity
    /\ Len(all_results[1].subtasks) = 1
    /\ Len(submitted) = 2
    /\ submitted[2].op = "create_subtask"
    /\ submitted[2].parent = results.main_issue.id
    /\ pc = "returned"

\* C12: in a run that reaches the loop over the groups, every group is
\* processed, in the order of issue_groups, whatever happened to the groups
\* before it: when main returns there is one result per group, and for each
\* group create_issue was called for its main row.
C12_EveryGroupIsAttempted ==
    ReachedSubmission
    => /\ Len(all_results) <= Len(issue_groups)
       /\ \A k \in 1..Len(all_results) :
             /\ all_results[k].issue_id = issue_groups[k].id
             /\ PrimaryAttempted(all_results[k])
       /\ pc = "main_done" => Len(all_results) = Len(issue_groups)
       /\ pc = "pg_return"
          => Len(submitted) >= 1 /\ submitted[1].op = "create_issue"

C12_Witness ==
    /\ pc = "main_done"
    /\ Len(issue_groups) = 2
    /\ Len(all_results) = 2
    /\ all_results[1].main_issue = NoEntity
    /\ all_results[1].errors # <<>>
    /\ all_results[2].main_issue # NoEntity
    /\ all_results[2].errors = <<>>

AuthFailed(res) ==
    \E k \in 1..Len(res.errors) :
        /\ res.errors[k].exc.type = "ApiError"
        /\ res.errors[k].exc.status_code \in {401, 403}

\* C15: when the remote answers a submission of a run with 401 or 403, that
\* answer is the last remote call of the submission (no retry, no wait after
\* it) and the submission raises it; the run goes on: when main returns,
\* every group after the one that recorded the authentication error has a
\* result, and create_issue was called for its main row.
C15_AuthErrorFailsSubmissionNotRun ==
    /\ \A k \in 1..Len(remote_calls) :
          AuthAnswer(remote_calls[k])
          => /\ k = Len(remote_calls)
             /\ pc \notin {"attempt", "backoff", "returned"}
             /\ raised = remote_calls[k].exc
             /\ response = NoResponse
    /\ (entry = "main" /\ pc = "main_done")
       => \A k \in 1..Len(all_results) :
             AuthFailed(all_results[k])
             => /\ Len(all_results) = Len(issue_groups)
                /\ \A j \in (k + 1)..Len(issue_groups) :
                      /\ all_results[j].issue_id = issue_groups[j].id
                      /\ PrimaryAttempted(all_results[j])

C15_Witness ==
    /\ pc = "main_done"
    /\ retry_attempts = 2
    /\ Len(all_results) = 2
    /\ all_results[1].main_issue = NoEntity
    /\ all_results[1].errors = <<ErrorMessage("main", 1, ApiError(401))>>
    /\ all_results[2].main_issue # NoEntity
    /\ Len(all_results[2].subtasks) = 1

\* The number of rows of a group that carry a summary and a description, the
\* test validate_issue_groups and process_issue_group apply to find the main
\* row.
MainRowCount(g) ==
    Cardinality({i \in 1..Len(g.rows) :
                    /\ g.rows[i].summary \notin {None, <<>>}
                    /\ g.rows[i].description \notin {None, <<>>}})

WellShaped(g) == MainRowCount(g) = 1

GroupsOfTheRun == get_issue_groups(validated_rows)

ResultsOf(id) ==
    {k \in 1..Len(all_results) : all_results[k].issue_id = id}

NoGroupError == \A k \in 1..Len(all_results) : all_results[k].errors = <<>>

\* C14 as stated: main returns True exactly when every group produced zero
\* errors, and False exactly when at least one group recorded an error.
\* (Violated: see C14_RunResult.)
C14_SuccessIffNoGroupError ==
    (entry = "main" /\ pc = "main_done")
    => /\ ret = "True" <=> NoGroupError
       /\ ret = "False" <=> ~NoGroupError

\* C14, amended: main returns True exactly when the configuration and the
\* connection test passed, the source was read without a structural error,
\* every group formed from the valid rows is well-shaped, and every group
\* produced zero errors.  It returns False when at least one group recorded
\* an error, and also, with no group error recorded, when the setup or the
\* connection test failed, the source had a structural error, or some group
\* was not well-shaped.  In a run that processed its groups the result is
\* True exactly when every group produced zero errors.
C14_RunResult ==
    (entry = "main" /\ pc = "main_done")
    => /\ ret \in {"True", "False"}
       /\ ret = "True"
          <=> /\ connected = "ok"
              /\ ~StructuralError(csv_file)
              /\ \A k \in 1..Len(GroupsOfTheRun) :
                    WellShaped(GroupsOfTheRun[k])
              /\ NoGroupError
       /\ ~NoGroupError => ret = "False"
       /\ all_results # <<>>
          => /\ Len(all_results) = Len(GroupsOfTheRun)
             /\ ret = "True" <=> NoGroupError
             /\ error_count =
                   Cardinality({k \in 1..Len(all_results) :
                                   all_results[k].errors # <<>>})
             /\ success_count + error_count = Len(all_results)

C14_Witness ==
    /\ pc = "main_done"
    /\ ret = "False"
    /\ Len(all_results) = 2
    /\ all_results[1].errors = <<>>
    /\ all_results[2].errors # <<>>
    /\ all_results[2].main_issue # NoEntity
    /\ success_count = 1

----------------------------------------------------------------------------
\* Bounds of one submission.

\* C29: on a client with retry_attempts = R >= 1, whatever the remote
\* answers, a submission never makes more than R remote calls nor more than
\* R - 1 backoff waits, every wait is followed by another attempt (there are
\* never more waits than calls), and a submission
\* that has ended made at least one call and exactly one wait fewer than
\* calls: none after its final attempt.
C29_CallsAndWaitsBounded ==
    retry_attempts >= 1
    => /\ Len(remote_calls) <= retry_attempts
       /\ Len(sleeps) <= retry_attempts - 1
       /\ Len(sleeps) <= Len(remote_calls)
       /\ Len(remote_calls) = retry_attempts
          => Len(sleeps) = retry_attempts - 1
       /\ pc \in {"returned", "raised"}
          => /\ Len(remote_calls) >= 1
             /\ Len(sleeps) = Len(remote_calls) - 1

C29_Witness ==
    /\ pc = "raised"
    /\ retry_attempts = 3
    /\ Len(remote_calls) = 3
    /\ Len(sleeps) = 2
    /\ \A k \in 1..3 : RetryableAnswer(remote_calls[k])

----------------------------------------------------------------------------
\* The row submitted as the main issue.

\* C30 as stated: every create_issue payload is built from a row that has a
\* summary, a description and an issue type (CSVRow.has_main_issue); a row
\* lacking any of the three is never submitted as the main issue.
\* (Violated, already by the payloads the remote accepted: process_issue_group
\* selects the main row on summary and description only.)
C30_PrimaryComesFromPrimaryCandidate ==
    \A k \in 1..Len(submitted) :
        (submitted[k].op = "create_issue" /\ results.main_issue # NoEntity)
        => /\ submitted[k].row \in 1..Len(rows)
           /\ has_main_issue(rows[submitted[k].row])
           /\ submitted[k].issuetype # "None"

----------------------------------------------------------------------------
\* Normalisation of a valid record.

NonBlankAt(v) == {k \in 1..Len(v) : v[k] # " "}

\* The cell without its leading and trailing blanks.
Trimmed(v) ==
    IF NonBlankAt(v) = {} THEN <<>>
    ELSE LET lo == CHOOSE k \in NonBlankAt(v) : \A j \in NonBlankAt(v) : k <= j
             hi == CHOOSE k \in NonBlankAt(v) : \A j \in NonBlankAt(v) : k >= j
         IN  SubSeq(v, lo, hi)

\* The validated row handed to the CSVRow constructor again.
AsRecord(row) ==
    RawRecord(row.id, row.project_key, row.summary, row.description,
              row.issue_type, row.subtask_summary, row.subtask_description)

\* C21: a record whose ID and Project Key are not blank is validated; the
\* row carries the trimmed ID, the trimmed and upper-cased Project Key and,
\* for each of the five other columns, the trimmed cell (None when the cell
\* is absent or blank); validating the validated row again yields the same
\* row.
C21_ValidRowIsTrimmedInput ==
    (pc \in {"read_rows", "read_returned"} /\ row_num = 3
        /\ WellFormed(csv_file.records[1]))
    => LET rec == csv_file.records[1] IN
       /\ Len(validated_rows) = 1
       /\ validated_rows[1].id = Trimmed(rec["ID"])
       /\ validated_rows[1].project_key = upper(Trimmed(rec["Project Key"]))
       /\ \A c \in OptionalColumns :
             FieldOf(validated_rows[1], c) =
                IF Blank(rec[c]) THEN None ELSE Trimmed(rec[c])
       /\ MakeCSVRow(AsRecord(validated_rows[1])).ok
       /\ MakeCSVRow(AsRecord(validated_rows[1])).row = validated_rows[1]

C21_Witness ==
    /\ pc = "read_returned"
    /\ csv_file.records[1]["ID"] = <<" ", "a", " ">>
    /\ csv_file.records[1]["Project Key"] = <<" ", "a", " ">>
    /\ csv_file.records[1]["Summary"] = <<" ", "a", " ">>
    /\ csv_file.records[1]["Subtask Summary"] = <<" ">>
    /\ Len(validated_rows) = 1
    /\ validated_rows[1].id = <<"a">>
    /\ validated_rows[1].project_key = <<"A">>
    /\ validated_rows[1].summary = <<"a">>
    /\ validated_rows[1].subtask_summary = None

----------------------------------------------------------------------------
\* Structural validation of the header.

\* C28: the header of a readable file is accepted exactly when it holds each
\* of the seven required columns: the reader goes on to the records when it
\* does, whatever other columns the header holds, and raises ValueError
\* before reading any record when it does not; a header without any column
\* is never accepted.
C28_HeaderNeedsSevenColumns ==
    /\ Cardinality(required_columns) = 7
    /\ (pc # "read_open" /\ csv_file.exists /\ csv_file.readable)
       => /\ read_raised = "None"
             <=> \A c \in {"ID", "Project Key", "Summary", "Description",
                           "Issue Type", "Subtask Summary",
                           "Subtask Description"} : c \in csv_file.fieldnames
          /\ read_raised \in {"None", "ValueError"}
          /\ read_raised = "None" <=> pc \in {"read_rows", "read_returned"}
          /\ read_raised = "ValueError"
             => pc = "read_raised" /\ row_num = 2 /\ validated_rows = <<>>
          /\ csv_file.fieldnames = {} => read_raised = "ValueError"

C28_Witness ==
    /\ pc = "read_returned"
    /\ csv_file.fieldnames = required_columns \cup {"Labels", "Priority"}
    /\ Len(validated_rows) = 1

----------------------------------------------------------------------------
\* Properties of grouping.

GroupIds == {issue_groups[k].id : k \in 1..Len(issue_groups)}

FirstRowOf(id) ==
    CHOOSE k \in 1..Len(validated_rows) :
        /\ validated_rows[k].id = id
        /\ \A j \in 1..(k - 1) : validated_rows[j].id # id

RowsOf(id) == SelectSeq(validated_rows, LAMBDA row : row.id = id)

\* C22: the groups come in the order in which their IDs first appear in the
\* rows, no ID has two groups, the rows of a group are the rows with its ID
\* in input order, and every row is in the group of its own ID (and in no
\* other).
C22_GroupingPreservesOrder ==
    (entry = "grouping" /\ group_calls >= 1)
    => /\ GroupIds = {validated_rows[k].id : k \in 1..Len(validated_rows)}
       /\ \A i, j \in 1..Len(issue_groups) :
             i < j => /\ issue_groups[i].id # issue_groups[j].id
                      /\ FirstRowOf(issue_groups[i].id)
                            < FirstRowOf(issue_groups[j].id)
       /\ \A k \in 1..Len(issue_groups) :
             /\ issue_groups[k].rows # <<>>
             /\ issue_groups[k].rows = RowsOf(issue_groups[k].id)

C22_Witness ==
    /\ entry = "grouping"
    /\ group_calls = 1
    /\ Len(validated_rows) = 4
    /\ Len(issue_groups) = 2
    /\ validated_rows[1].id = <<"b">>
    /\ validated_rows[2].id = <<"a">>
    /\ validated_rows[3].id = <<"b">>
    /\ validated_rows[1] # validated_rows[3]
    /\ issue_groups[1].id = <<"b">>
    /\ Len(issue_groups[1].rows) = 2

\* C25: calling get_issue_groups a second time on the same rows returns what
\* the first call returned (the same IDs in the same order, the same rows in
\* the same order in every group), and no call changes the rows it is given.
C25_StepOnGroupCall ==
    (entry = "grouping" /\ group_calls' # group_calls)
    => /\ validated_rows' = validated_rows
       /\ group_calls >= 1 => issue_groups' = issue_groups

PrimaryCandidates(g) ==
    Cardinality({i \in 1..Len(g.rows) : has_main_issue(RowTruth(g.rows[i]))})

\* C23 as stated: validate_issue_groups returns True exactly when every
\* group has exactly one row with a summary, a description and an issue
\* type.  (Violated: the rows are counted on summary and description only.)
C23_ValidIffOnePrimaryCandidate ==
    (entry = "grouping" /\ pc = "verified")
    => (groups_valid
           <=> \A k \in 1..Len(issue_groups) :
                  PrimaryCandidates(issue_groups[k]) = 1)

\* C24 as stated: the groups reported are exactly the groups without a row
\* that has a summary, a description and an issue type (reported as having
\* no main issue) and the groups with several such rows (reported as having
\* multiple main rows); a group with exactly one such row is not reported.
\* (Violated: the rows are counted on summary and description only.)
C24_ReportedGroups ==
    (entry = "grouping" /\ pc = "verified")
    => {group_errors[k] : k \in 1..Len(group_errors)} =
          {[id |-> issue_groups[k].id, what |-> "no_main"] :
              k \in {j \in 1..Len(issue_groups) :
                        PrimaryCandidates(issue_groups[j]) = 0}}
          \cup
          {[id |-> issue_groups[k].id, what |-> "multiple"] :
              k \in {j \in 1..Len(issue_groups) :
                        PrimaryCandidates(issue_groups[j]) > 1}}

----------------------------------------------------------------------------
\* Order of the remote calls of a run.

\* The group the run is processing is the group_idx-th group, and every
\* group before it has returned its result.
ProcessingCurrentGroup ==
    /\ group_idx \in 1..Len(issue_groups)
    /\ issue_id = issue_groups[group_idx].id
    /\ Len(all_results) = group_idx - 1
    /\ \A k \in 1..Len(all_results) :
          all_results[k].issue_id = issue_groups[k].id

C27_StepOfARun ==
    entry = "main"
    => /\ (\/ api_calls' # api_calls
           \/ sleeps' # sleeps /\ sleeps' # <<>>
           \/ submitted' # submitted /\ submitted' # <<>>)
          => /\ ProcessingCurrentGroup
             /\ ProcessingCurrentGroup'
             /\ group_idx' = group_idx
       /\ api_calls' # api_calls
          => /\ api_calls' = api_calls + 1
             /\ pc = "attempt"
             /\ payload = Last(submitted)
             /\ Len(remote_calls') = Len(remote_calls) + 1
       /\ group_idx' # group_idx
          => /\ group_idx' = group_idx + 1
             /\ pc = "pg_return"
             /\ api_calls' = api_calls
             /\ all_results' = Append(all_results, Last(all_results'))
             /\ Last(all_results').issue_id = issue_groups[group_idx].id

\* C27: the groups of a run are processed one after another in the order in
\* which their IDs first appear in the rows: every remote call and every
\* backoff wait is made for the group the loop is at, after all groups
\* before it have returned their result and before the loop moves on; the
\* loop moves on only from the return of process_issue_group; and each
\* remote call is one step of the single submission in progress.
C27_GroupsAreSequential ==
    /\ [][C27_StepOfARun]_vars
    /\ []((entry = "main" /\ issue_groups # <<>>)
          => \A i, j \in 1..Len(issue_groups) :
                i < j => FirstRowOf(issue_groups[i].id)
                            < FirstRowOf(issue_groups[j].id))

C27_Witness ==
    /\ entry = "main"
    /\ pc = "attempt"
    /\ group_idx = 2
    /\ validated_rows[1].id = <<"b">>
    /\ issue_id = <<"a">>
    /\ Len(remote_calls) = 1
    /\ Len(sleeps) = 1
    /\ Len(all_results) = 1
    /\ all_results[1].issue_id = <<"b">>
    /\ Len(all_results[1].errors) = 1
    /\ Len(all_results[1].subtasks) = 0
    /\ all_results[1].main_issue # NoEntity

----------------------------------------------------------------------------
\* A run whose remote calls all succeed.

\* Every call of jira.issue_create made so far created an entity.
AllCallsSucceeded == api_calls = next_id - 1

HasChild(row) ==
    /\ row.subtask_summary \notin {None, <<>>}
    /\ row.subtask_description \notin {None, <<>>}

ChildRowsOf(id) ==
    {k \in 1..Len(validated_rows) :
        validated_rows[k].id = id /\ HasChild(validated_rows[k])}

\* The three rows of the end-to-end test, in its order.
ScenarioOfThreeRows ==
    << RawRecord(<<"a">>, <<"a">>, <<"a">>, <<"a">>, <<"a">>, <<"a">>, <<"a">>),
       RawRecord(<<"a">>, <<"a">>, <<>>, <<>>, <<>>, <<"b">>, <<"b">>),
       RawRecord(<<"b">>, <<"a">>, <<"b">>, <<"b">>, <<"a">>, <<>>, <<>>) >>

\* C26: a run with retry_attempts >= 1 that read its rows, found every
\* group well-shaped and had every remote call succeed returns True after
\* exactly one call per group plus one call per row with both subtask
\* fields: every group has its main issue, one subtask per such row of the
\* group (the main row included when it carries subtask fields) and no
\* error.  For the three rows of the end-to-end test that is two groups,
\* the first with a main issue and two subtasks, the second with a main
\* issue and no subtask, and four calls.
C26_AllSucceedOneCallPerEntity ==
    (entry = "main" /\ pc = "main_done" /\ retry_attempts >= 1
        /\ connected = "ok" /\ ~StructuralError(csv_file)
        /\ validated_rows # <<>>
        /\ \A k \in 1..Len(GroupsOfTheRun) : WellShaped(GroupsOfTheRun[k])
        /\ AllCallsSucceeded)
    => /\ ret = "True"
       /\ Len(all_results) = Len(issue_groups)
       /\ api_calls =
             Len(issue_groups)
             + Cardinality({k \in 1..Len(validated_rows) :
                               HasChild(validated_rows[k])})
       /\ \A k \in 1..Len(all_results) :
             /\ all_results[k].main_issue # NoEntity
             /\ all_results[k].errors = <<>>
             /\ Len(all_results[k].subtasks) =
                   Cardinality(ChildRowsOf(all_results[k].issue_id))
       /\ csv_file.records = ScenarioOfThreeRows
          => /\ Len(issue_groups) = 2
             /\ Len(issue_groups[1].rows) = 2
             /\ Len(issue_groups[2].rows) = 1
             /\ Len(all_results[1].subtasks) = 2
             /\ Len(all_results[2].subtasks) = 0
             /\ api_calls = 4

C26_Witness ==
    /\ pc = "main_done"
    /\ csv_file.records = ScenarioOfThreeRows
    /\ AllCallsSucceeded
    /\ api_calls = 4
    /\ ret = "True"
    /\ Len(all_results) = 2
----------------------------------------------------------------------------
\* Ownership of the group results.

C31_StepOfARun ==
    entry = "main"
    => /\ \A k \in 1..Len(all_results) :
             /\ Len(all_results') >= k
             /\ all_results'[k] = all_results[k]
       /\ all_results' # all_results
          => /\ pc = "pg_return"
             /\ ProcessingCurrentGroup
             /\ all_results' =
                   Append(all_results,
                          [issue_id |-> issue_groups[group_idx].id,
                           main_issue |-> results.main_issue,
                           subtasks |-> results.subtasks,
                           errors |-> results.errors])
       /\ results' # results
          => /\ pc \in {"pg_start", "returned", "raised"}
             /\ ProcessingCurrentGroup
             /\ ProcessingCurrentGroup'
             /\ all_results' = all_results
       /\ pc = "pg_start"
          => /\ results'.main_issue = NoEntity
             /\ results'.subtasks = <<>>
             /\ pc' # "pg_return" => results'.errors = <<>>

\* C31: the result of a group is written only while that group is
\* processed: it starts empty when the processing of the group starts, every
\* change of it is made by a step of the processing of the group the loop is
\* at, and no such step changes a result already returned; the result is
\* appended to all_results, as it stands, when the processing returns, and
\* from then on its main issue, its subtasks and its errors never change:
\* when main returns, all_results holds what each group returned.
C31_ResultOwnedByItsGroup ==
    /\ [][C31_StepOfARun]_vars
    /\ []((entry = "main" /\ pc = "pg_return")
          => \A k \in 1..Len(all_results) :
                all_results[k].issue_id # issue_id)

C31_Witness ==
    /\ entry = "main"
    /\ pc = "main_done"
    /\ Len(all_results) = 2
    /\ Len(all_results[1].subtasks) = 1
    /\ Len(all_results[1].errors) = 1
    /\ all_results[2].main_issue = NoEntity
    /\ Len(all_results[2].errors) = 1
----------------------------------------------------------------------------
\* The counts of a run.

ResultsWithErrors ==
    {k \in 1..Len(all_results) : all_results[k].errors # <<>>}

ResultsWithoutErrors ==
    {k \in 1..Len(all_results) : all_results[k].errors = <<>>}

\* C32: all along the loop over the groups success_count counts the results
\* without error and error_count the results with at least one error; when a
\* run that passed validate_issue_groups returns, there is exactly one result
\* per group, in the order of the groups, and success_count + error_count is
\* the number of groups.
C32_CountsMatchResults ==
    entry = "main"
    => /\ success_count = Cardinality(ResultsWithoutErrors)
       /\ error_count = Cardinality(ResultsWithErrors)
       /\ success_count + error_count = Len(all_results)
       /\ (pc = "main_done" /\ group_calls >= 1 /\ group_errors = <<>>)
          => /\ Len(all_results) = Len(issue_groups)
             /\ success_count + error_count = Len(issue_groups)
             /\ \A k \in 1..Len(issue_groups) :
                   all_results[k].issue_id = issue_groups[k].id
             /\ \A i, j \in 1..Len(all_results) :
                   i # j => all_results[i].issue_id # all_results[j].issue_id

C32_Witness ==
    /\ entry = "main"
    /\ pc = "main_done"
    /\ group_errors = <<>>
    /\ Len(issue_groups) = 2
    /\ success_count = 1
    /\ error_count = 1
    /\ all_results[1].main_issue # NoEntity
    /\ Len(all_results[1].errors) = 2
    /\ all_results[2].errors = <<>>
----------------------------------------------------------------------------
\* The breakdown of the summary.

\* The errors the summary lists, over all the results it prints.
ListedErrors ==
    UNION {{breakdown[k].errors[i] : i \in 1..Len(breakdown[k].errors)} :
              k \in 1..Len(breakdown)}

\* C33 as stated: the summary of a run that processed its groups lists the
\* recorded errors of every result that has at least one, the results
\* without main issue included: every recorded error of a main issue or of a
\* subtask is listed in it.  (Violated: the summary prints the errors of a
\* result only inside the branch taken when the result has a main issue.)
C33_BreakdownListsEveryError ==
    (entry = "main" /\ pc = "main_done" /\ all_results # <<>>)
    => \A k \in 1..Len(all_results) :
          \A i \in 1..Len(all_results[k].errors) :
             all_results[k].errors[i] \in ListedErrors
----------------------------------------------------------------------------
\* The shape of a group result.

\* C34: when process_issue_group returns, its result has one of two shapes.
\* Either it has no main issue, no subtask and exactly one error (no main
\* row was found, or the creation of the main issue failed); or it has a
\* main issue, and every row with both subtask fields is accounted for once,
\* as a subtask or as an error: the subtasks and the errors together count
\* those rows, and the subtasks recorded are rows with both subtask fields,
\* in row order.
C34_ResultHasOneOfTwoShapes ==
    pc = "pg_return"
    => \/ /\ results.main_issue = NoEntity
          /\ results.subtasks = <<>>
          /\ Len(results.errors) = 1
          /\ results.errors[1].what \in {"no_main", "main"}
       \/ /\ results.main_issue # NoEntity
          /\ Len(results.subtasks) + Len(results.errors) = Len(SubtaskRows)
          /\ \A k \in 1..Len(results.errors) :
                results.errors[k].what = "subtask"
          /\ \A k \in 1..Len(results.subtasks) :
                /\ results.subtasks[k].row \in 1..Len(rows)
                /\ rows[results.subtasks[k].row].subtask_summary
                /\ rows[results.subtasks[k].row].subtask_description
          /\ \A i, j \in 1..Len(results.subtasks) :
                i < j => results.subtasks[i].row < results.subtasks[j].row
          /\ \A i, j \in 1..Len(results.errors) :
                i < j => results.errors[i].row < results.errors[j].row
          /\ \A i \in 1..Len(results.subtasks) :
                \A j \in 1..Len(results.errors) :
                   results.subtasks[i].row # results.errors[j].row

C34_Witness ==
    /\ entry = "group"
    /\ pc = "pg_return"
    /\ Len(rows) = 2
    /\ results.main_issue # NoEntity
    /\ results.main_issue.row = 2
    /\ Len(results.subtasks) = 1
    /\ results.subtasks[1].row = 2
    /\ Len(results.errors) = 1
    /\ results.errors[1].row = 1
----------------------------------------------------------------------------
\* The groups main hands to process_issue_group.

InsideGroup ==
    pc \in {"attempt", "backoff", "returned", "raised", "pg_subtasks",
            "pg_return"}

PrimarySubmissions ==
    {k \in 1..Len(submitted) : submitted[k].op = "create_issue"}

NoMainError(errors) ==
    \A k \in 1..Len(errors) : errors[k].what # "no_main"

\* C35: in a run of main, process_issue_group is only called after
\* validate_issue_groups returned True, on a group with exactly one row that
\* has a summary and a description; it finds that row as the main row, so no
\* result of the run carries the error "No main issue data found", and for
\* every group processed create_issue is called exactly once.
C35_ProcessedGroupHasItsMainRow ==
    entry = "main"
    => /\ (pc = "pg_start" \/ InsideGroup)
          => /\ group_calls = 1
             /\ group_errors = <<>>
             /\ \A k \in 1..Len(issue_groups) : WellShaped(issue_groups[k])
             /\ FindMainIssueRow(rows) # 0
       /\ InsideGroup
          => /\ main_issue_row = FindMainIssueRow(rows)
             /\ main_issue_row # 0
             /\ Cardinality(PrimarySubmissions) = 1
             /\ submitted[1].op = "create_issue"
             /\ submitted[1].row = main_issue_row
       /\ NoMainError(results.errors)
       /\ \A k \in 1..Len(all_results) :
             /\ NoMainError(all_results[k].errors)
             /\ PrimaryAttempted(all_results[k])

C35_Witness ==
    /\ entry = "main"
    /\ pc = "pg_return"
    /\ group_idx = 2
    /\ Len(rows) = 1
    /\ Len(submitted) = 2
    /\ Len(all_results) = 1
    /\ all_results[1].main_issue = NoEntity
    /\ results.main_issue # NoEntity
----------------------------------------------------------------------------
\* A group with several main rows handed to process_issue_group.

\* The rows that carry the data of a main issue: a summary and a
\* description, the test of process_issue_group.
PrimaryDataRows ==
    {i \in 1..Len(rows) : rows[i].summary /\ rows[i].description}

FirstPrimaryDataRow ==
    CHOOSE i \in PrimaryDataRows : \A j \in PrimaryDataRows : i <= j

\* C36: process_issue_group called directly on a group with two or more rows
\* that carry a summary and a description makes exactly one create_issue
\* submission, built from the first of these rows, and records no error about
\* the shape of the group.  When the main issue is created, every row with
\* both subtask fields, the other main rows included, is submitted once, in
\* row order, as a subtask whose parent is that main issue; when its creation
\* fails, no subtask is submitted.
C36_FirstOfSeveralMainRowsIsUsed ==
    (entry = "group" /\ Cardinality(PrimaryDataRows) >= 2 /\ pc # "pg_start")
    => /\ main_issue_row = FirstPrimaryDataRow
       /\ Cardinality(PrimarySubmissions) = 1
       /\ submitted[1] = [op |-> "create_issue", row |-> FirstPrimaryDataRow,
                          issuetype |-> submitted[1].issuetype, parent |-> 0]
       /\ \A k \in 1..Len(results.errors) :
             results.errors[k].what \in {"main", "subtask"}
       /\ results.main_issue # NoEntity
          => results.main_issue.row = FirstPrimaryDataRow
       /\ \A k \in 2..Len(submitted) :
             /\ results.main_issue # NoEntity
             /\ submitted[k] = [op |-> "create_subtask",
                                row |-> SubtaskRows[k - 1],
                                issuetype |-> "Sub-task",
                                parent |-> results.main_issue.id]
       /\ pc = "pg_return"
          => Len(submitted) = IF results.main_issue # NoEntity
                              THEN 1 + Len(SubtaskRows) ELSE 1

C36_Witness ==
    /\ entry = "group"
    /\ pc = "pg_return"
    /\ Len(rows) = 2
    /\ PrimaryDataRows = {1, 2}
    /\ rows[1] # rows[2]
    /\ Len(submitted) = 3
    /\ submitted[3].row = 2
    /\ submitted[3].parent = results.main_issue.id
    /\ results.main_issue.row = 1
    /\ results.errors = <<>>
----------------------------------------------------------------------------
\* The retry state of successive submissions.

C37_StepOfARun ==
    (submitted' # submitted /\ submitted' # <<>>)
    => /\ submitted' = Append(submitted, payload')
       /\ attempt' = 0
       /\ remote_calls' = <<>>
       /\ sleeps' = <<>>
       /\ last_exception' = NoException
       /\ retry_attempts' = retry_attempts
       /\ retry_delay' = retry_delay
       /\ pc' = "attempt"

\* C37: every submission of a run, of a main issue or of a subtask, of the
\* first group or of a later one, starts with attempt = 0, no remote call
\* made, no wait done and no exception remembered, on a client whose
\* retry_attempts and retry_delay never change.  So the attempt index always
\* counts the remote calls of the submission in progress alone, its k-th
\* wait lasts retry_delay * 2^(k-1) (the first one retry_delay), and a
\* submission that fails on retryable answers only has made retry_attempts
\* calls, whatever the submissions before it went through.
C37_RetryStateIsPerSubmission ==
    /\ [][C37_StepOfARun]_vars
    /\ [](pc = "attempt" => attempt = Len(remote_calls))
    /\ [](pc = "backoff" => attempt = Len(remote_calls) - 1)
    /\ [](\A k \in 1..Len(sleeps) : sleeps[k] = retry_delay * (2 ^ (k - 1)))
    /\ []((pc = "raised" /\ retry_attempts >= 1
             /\ \A k \in 1..Len(remote_calls) :
                   RetryableAnswer(remote_calls[k]))
          => Len(remote_calls) = retry_attempts)

C37_Witness ==
    /\ entry = "main"
    /\ retry_attempts = 2
    /\ Len(all_results) = 1
    /\ all_results[1].main_issue # NoEntity
    /\ all_results[1].errors =
          <<ErrorMessage("subtask", 1, ApiError(500))>>
    /\ group_idx = 2
    /\ pc = "raised"
    /\ operation = "create_issue"
    /\ Len(remote_calls) = 2
    /\ sleeps = <<DefaultRetryDelay>>
----------------------------------------------------------------------------
\* Termination of a run.

\* The number of create calls a run can need: retry_attempts for the main
\* issue of every group and for every validated row with both subtask
\* fields.
MaxCreateCalls ==
    retry_attempts
    * (Len(GroupsOfTheRun)
       + Cardinality({k \in 1..Len(validated_rows) :
                         HasChild(validated_rows[k])}))

\* C38: every run of main returns, whatever the source holds and whatever
\* the remote answers to each call; and with retry_attempts >= 1 the run
\* never makes more than retry_attempts * (number of groups + number of
\* validated rows with both subtask fields) calls of jira.issue_create.
C38_RunTerminates ==
    /\ <>(pc = "main_done" /\ ret \in {"True", "False"})
    /\ [](retry_attempts >= 1 => api_calls <= MaxCreateCalls)
    /\ [][pc # "main_done"]_vars

C38_Witness ==
    /\ entry = "main"
    /\ pc = "main_done"
    /\ retry_attempts = 2
    /\ Len(validated_rows) = 2
    /\ Len(issue_groups) = 2
    /\ api_calls = 8
    /\ api_calls = MaxCreateCalls
----------------------------------------------------------------------------
\* A source without any valid row.

\* C39: when the source is readable and its header valid but no record of
\* it is validated (it has no record, or every record is malformed and
\* dropped with an error), main returns True right after reading: no group
\* is formed, validate_issue_groups is not called, nothing is submitted and
\* jira.issue_create is never called.
C39_NoValidRowIsSuccess ==
    (entry = "main" /\ pc = "main_done" /\ connected = "ok"
        /\ ~StructuralError(csv_file) /\ validated_rows = <<>>)
    => /\ ret = "True"
       /\ api_calls = 0
       /\ submitted = <<>>
       /\ issue_groups = <<>>
       /\ group_calls = 0
       /\ all_results = <<>>
       /\ Len(read_errors) = Len(csv_file.records)
       /\ \A k \in 1..Len(csv_file.records) :
             ~WellFormed(csv_file.records[k])

C39_Witness ==
    /\ entry = "main"
    /\ pc = "main_done"
    /\ csv_file = ReadableFile(<<BlankIdRecord>>)
    /\ read_errors = <<RowError(2)>>
    /\ validated_rows = <<>>
    /\ retry_attempts = 2
    /\ ret = "True"
----------------------------------------------------------------------------
\* A client configured without any attempt.

\* C40: retry_attempts is taken from the configuration as it is, so it can
\* be 0 or negative.  The loop of a submission then has no iteration: the
\* submission makes no remote call and no wait, returns no entity and ends
\* by raising ("raise last_exception" with last_exception None is a
\* TypeError), which process_issue_group records as the failure of the main
\* issue.  So every group the run processes gets a result without main
\* issue, without subtask and with that one error, and a run that processes
\* at least one group returns False.
C40_NoAttemptFailsEveryGroup ==
    (entry = "main" /\ retry_attempts <= 0)
    => /\ api_calls = 0
       /\ remote_calls = <<>>
       /\ sleeps = <<>>
       /\ response = NoResponse
       /\ pc \notin {"backoff", "returned", "pg_subtasks", "pg_raised"}
       /\ pc = "raised" => raised = TypeError
       /\ \A k \in 1..Len(submitted) : submitted[k].op = "create_issue"
       /\ \A k \in 1..Len(all_results) :
             /\ all_results[k].main_issue = NoEntity
             /\ all_results[k].subtasks = <<>>
             /\ Len(all_results[k].errors) = 1
             /\ all_results[k].errors[1].what = "main"
             /\ all_results[k].errors[1].exc = TypeError
       /\ (pc = "main_done" /\ group_calls >= 1 /\ group_errors = <<>>)
          => /\ ret = "False"
             /\ Len(all_results) = Len(issue_groups)
             /\ error_count = Len(issue_groups)
             /\ success_count = 0

C40_Witness ==
    /\ entry = "main"
    /\ retry_attempts = 0
    /\ pc = "main_done"
    /\ Len(issue_groups) = 2
    /\ Len(all_results) = 2
    /\ error_count = 2
    /\ api_calls = 0
    /\ ret = "False"

====
